---- MODULE Spec2Model ----
(***************************************************************************)
(* Tiered conversational memory of the trip planner: the intra-session     *)
(* store (Redis list with sliding TTL), the inter-session store (MongoDB   *)
(* conversations, Qdrant points, Redis stream of embedding jobs), the      *)
(* preference store (MongoDB document with a version, Redis cache), the    *)
(* embedding worker and its controller.                                    *)
(*                                                                         *)
(* A method whose backend calls other callers can come between is a        *)
(* sequence of steps of one caller, one step per backend call;             *)
(* process_job, the immediate embedding and retrieve_similar are one step  *)
(* each.                                                                   *)
(***************************************************************************)
EXTENDS Integers, Sequences, FiniteSets, TLC

VARIABLES
    \* ---- backends ----
    mongoUp,        \* MongoDB answers (get_db() not None and calls do not raise)
    redisUp,        \* Redis answers
    qdrantUp,       \* Qdrant answers
    embedUp,        \* the embedding provider answers
    now,            \* the clock time.time() reads
    rejectsConflicts, \* the document server rejects an update naming one path in two operators
    cacheEnabled,   \* config.ENABLE_REDIS_CACHE
    asyncEnabled,   \* config.ENABLE_ASYNC_EMBEDDING
    \* ---- preference store ----
    prefDocs,       \* collection user_preferences: user_id -> [preferences, version]
    prefq,          \* Redis stream preference_queue and the pending list of pref_extractors
    prefCache,      \* Redis keys pref:{user_id} -> [value: JSON of {**preferences, "_version": v}, ex]
    pc,             \* position of every caller of the preference store
    call,           \* the locals of the call a caller is in
    writes,         \* history: user_id -> number of update_one calls that wrote its document
    okSets,         \* history: user_id -> number of set_preferences calls that returned True
    \* ---- intra-session store ----
    sessLog,        \* Redis list session:{session_id}, as stored (JSON strings); <<>> = no key
    sessTTL,        \* remaining seconds of the key's expiry
    sessExpires,    \* whether the key has an expiry at all
    spc,            \* position of every client of the memory manager
    scall,          \* the locals of the call a client is in
    hist,           \* history: per session, the pushes since the key was last deleted
    idle,           \* history: seconds since an append last returned True on the key (capped; the cap after a clear)
    \* ---- inter-session store ----
    convDocs,       \* collection conversations: session_id -> document
    points,         \* Qdrant collection: the points in the order of their upsert
    stream,         \* Redis stream embedding_queue: the entries in the order of their XADD
    groupCreated,   \* the consumer group "embedder" exists
    lastDelivered,  \* the group's last-delivered entry (0 = none)
    pending,        \* the group's pending entries list: entry -> [owner, stale]
    \* ---- embedding workers and their controller ----
    ctl,            \* the controller: "off" or "running"
    wstate,         \* position of every worker process ("dead" = no process)
    wbatch,         \* the entries of the batch a worker still has to handle
    kills,          \* history: number of worker processes killed
    upserts,        \* history: entry -> number of points workers upserted for it
    finalizedOk,    \* history: <<user, session, number of messages>> of the finalize calls that returned True on a non-empty log
    orphaned,       \* history: entries whose point was upserted by a worker killed before its XACK
    finLog          \* history: per session, the last two finalize calls that returned since a message was last pushed

backVars == <<mongoUp, redisUp, qdrantUp, embedUp>>
cfgVars == <<rejectsConflicts, cacheEnabled, asyncEnabled>>
envVars == <<backVars, cfgVars, now>>
prefVars == <<prefDocs, prefCache, pc, call, writes, okSets, prefq>>
sessVars == <<sessLog, sessTTL, sessExpires, spc, scall, hist, idle>>
storeVars == <<convDocs, points>>
queueVars == <<stream, groupCreated, lastDelivered, pending>>
workerVars == <<ctl, wstate, wbatch, kills, upserts, orphaned>>
finHist == <<finalizedOk, finLog>>
pipeVars == <<storeVars, queueVars, workerVars, finHist>>
vars == <<envVars, prefVars, sessVars, pipeVars>>

\* What the preference store never touches, and what the session store never touches.
otherThanPref == <<sessVars, pipeVars, prefq>>
otherThanSess == <<prefVars, pipeVars>>

----------------------------------------------------------------------------
(* Bounds of the model *)

MaxVersion == 2
MaxLog == 2
TickSeconds == 2400

\* config.INTRA_SESSION_TTL, seconds
INTRA_SESSION_TTL == 7200

\* One user suffices for the preference store: every key is per user.
PrefUsers == {"u1"}
Callers == {"c1", "c2"}
BudgetVals == {1000, 2000}

\* A preferences mapping is a set of <<key, value>> pairs with distinct keys.
PrefKeys == {"budget", "_version"}
PrefInputs == {{<<"budget", b>>} : b \in BudgetVals}

----------------------------------------------------------------------------
(* Python dict operations on a preferences mapping *)

HasKey(p, k) == \E x \in p : x[1] = k

\* prefs[key] = value
DictPut(p, k, v) == {x \in p : x[1] # k} \cup {<<k, v>>}

\* A decoration that forgets the version.
Decorate_Unversioned(doc) == doc.preferences

\* out = {**prefs, "_version": version}
Decorate(doc) == DictPut(doc.preferences, "_version", doc.version)

VersionOf(docs, u) == IF u \in DOMAIN docs THEN docs[u].version ELSE 0

\* ex=3600 of the cache write, seconds
PREF_CACHE_TTL == 3600

\* json.dumps(out, ensure_ascii=False): the members of the mapping, one after
\* the other, "_version" last when present; json.loads reads the members back.
PrefDumps(p) ==
    LET rest == {x \in p : x[1] # "_version"}
        last == {x \in p : x[1] = "_version"}
        one(S) == IF S = {} THEN <<>> ELSE <<CHOOSE x \in S : TRUE>>
    IN  <<"json">> \o one(rest) \o one(last)
PrefLoads(j) == {j[i] : i \in 2..Len(j)}

----------------------------------------------------------------------------
(* MongoDB update_one *)

\* The server refuses an update document in which two operators name the same
\* path (error 40, "Updating the path ... would create a conflict at ...").
UpdateConflict(setPaths, incPaths, setOnInsertPaths) ==
    \/ setPaths \cap incPaths # {}
    \/ setPaths \cap setOnInsertPaths # {}
    \/ incPaths \cap setOnInsertPaths # {}

\* A blind upsert that writes version 1 instead of incrementing it.
BlindUpsert_ResetVersion(docs, u, p) ==
    IF u \in DOMAIN docs
    THEN [docs EXCEPT ![u] = [preferences |-> p, version |-> 1]]
    ELSE docs @@ (u :> [preferences |-> p, version |-> 1])

\* update_one({"user_id": u}, {"$set": {"preferences": p}, "$inc": {"version": 1},
\*             "$setOnInsert": {"version": 1}}, upsert=True), operators applied
\* in the order written: on insert $inc makes version 1 and $setOnInsert sets 1.
BlindUpsert(docs, u, p) ==
    IF u \in DOMAIN docs
    THEN [docs EXCEPT ![u] = [preferences |-> p, version |-> @.version + 1]]
    ELSE docs @@ (u :> [preferences |-> p, version |-> 1])

\* A filter that forgets the version.
VersionedMatches_IgnoreVersion(docs, u, expected) ==
    u \in DOMAIN docs

\* filter {"user_id": u, "version": expected}: matched_count
VersionedMatches(docs, u, expected) ==
    u \in DOMAIN docs /\ docs[u].version = expected

\* The versioned update with upsert=True: a filter that matches nothing inserts.
VersionedUpdate_Upsert(docs, u, p, expected) ==
    IF u \in DOMAIN docs
    THEN IF docs[u].version = expected
         THEN [docs EXCEPT ![u] = [preferences |-> p, version |-> @.version + 1]]
         ELSE docs
    ELSE docs @@ (u :> [preferences |-> p, version |-> expected + 1])

\* update_one(filter, {"$set": {"preferences": p}, "$inc": {"version": 1}}, upsert=False)
VersionedUpdate(docs, u, p, expected) ==
    IF VersionedMatches(docs, u, expected)
    THEN [docs EXCEPT ![u] = [preferences |-> p, version |-> @.version + 1]]
    ELSE docs

----------------------------------------------------------------------------
(* Callers of the preference store *)

NoCall == [op |-> "none", user |-> "u1", prefs |-> {}, versioned |-> FALSE,
           expected |-> 0, key |-> "budget", val |-> 0, out |-> {},
           outNull |-> TRUE, result |-> FALSE, startVer |-> 0,
           dbUp |-> FALSE, alone |-> FALSE, batch |-> <<>>, extracted |-> {}]

\* Caller c starts a call with the given frame. alone records that no other
\* call was in flight when it started and that none has started since.
Begin(c, frame) ==
    call' = [d \in DOMAIN pc |->
                IF d = c
                THEN [frame EXCEPT !.alone = \A e \in DOMAIN pc \ {c} : pc[e] = "idle"]
                ELSE IF pc[d] = "idle" THEN call[d]
                     ELSE [call[d] EXCEPT !.alone = FALSE]]

\* The stream preference_queue before any XADD: no entry, nothing delivered to
\* the group, nothing pending.
NoPrefQueue == [stream |-> <<>>, lastDelivered |-> 0, pending |-> {}]

\* The version counter is capped: no writing call starts once it has reached the cap
\* (calls already in flight may still take it past the cap, by one each).
CanStartWrite(u) == VersionOf(prefDocs, u) < MaxVersion

\* set_preferences(user_id, preferences, expected_version=None)
CallSetBlind(c, u, p) ==
    /\ pc[c] = "idle"
    /\ CanStartWrite(u)
    /\ pc' = [pc EXCEPT ![c] = "set_update_one"]
    /\ Begin(c, [NoCall EXCEPT !.op = "set", !.user = u, !.prefs = p,
                            !.startVer = VersionOf(prefDocs, u)])
    /\ UNCHANGED <<prefDocs, prefCache, writes, okSets, envVars>>
    /\ UNCHANGED otherThanPref

\* set_preferences(user_id, preferences, expected_version=e)
CallSetVersioned(c, u, p, e) ==
    /\ pc[c] = "idle"
    /\ CanStartWrite(u)
    /\ pc' = [pc EXCEPT ![c] = "set_update_one"]
    /\ Begin(c, [NoCall EXCEPT !.op = "set", !.user = u, !.prefs = p,
                            !.versioned = TRUE, !.expected = e,
                            !.startVer = VersionOf(prefDocs, u)])
    /\ UNCHANGED <<prefDocs, prefCache, writes, okSets, envVars>>
    /\ UNCHANGED otherThanPref

\* The document write of set_preferences: get_db(), then update_one inside the try.
\* False is returned when the database is unavailable, when the write raises, and
\* when the versioned filter matched nothing (matched_count == 0).
set_preferences_update_one(c) ==
    /\ pc[c] = "set_update_one"
    /\ LET u == call[c].user
           p == call[c].prefs
           conflict == /\ ~call[c].versioned
                       /\ rejectsConflicts
                       /\ UpdateConflict({"preferences"}, {"version"}, {"version"})
           raises == ~mongoUp \/ conflict
           matched == call[c].versioned => VersionedMatches(prefDocs, u, call[c].expected)
       IN  /\ prefDocs' = IF raises THEN prefDocs
                          ELSE IF call[c].versioned
                               THEN VersionedUpdate(prefDocs, u, p, call[c].expected)
                               ELSE BlindUpsert(prefDocs, u, p)
           /\ IF raises \/ ~matched
              THEN /\ pc' = [pc EXCEPT ![c] = "ret"]
                   /\ call' = [call EXCEPT ![c].result = FALSE, ![c].dbUp = mongoUp]
                   /\ UNCHANGED writes
              ELSE /\ writes' = [writes EXCEPT ![u] = @ + 1]
                   /\ pc' = [pc EXCEPT ![c] = "set_invalidate"]
                   /\ call' = [call EXCEPT ![c].dbUp = TRUE]
    /\ UNCHANGED <<prefCache, okSets, envVars>>
    /\ UNCHANGED otherThanPref

\* The cache entry after "client.delete(cache_key)"; a missing client or a raising
\* delete leaves the entry.
InvalidateCache(cache, u) ==
    IF cacheEnabled /\ redisUp
    THEN [v \in DOMAIN cache \ {u} |-> cache[v]]
    ELSE cache

\* The tail of set_preferences: invalidate the cache entry, return True.
set_preferences_invalidate(c) ==
    /\ pc[c] = "set_invalidate"
    /\ prefCache' = InvalidateCache(prefCache, call[c].user)
    /\ okSets' = [okSets EXCEPT ![call[c].user] = @ + 1]
    /\ pc' = [pc EXCEPT ![c] = "ret"]
    /\ call' = [call EXCEPT ![c].result = TRUE]
    /\ UNCHANGED <<prefDocs, writes, envVars>>
    /\ UNCHANGED otherThanPref

\* get_preferences(user_id)
CallGet(c, u) ==
    /\ pc[c] = "idle"
    /\ pc' = [pc EXCEPT ![c] = "get_cache"]
    /\ Begin(c, [NoCall EXCEPT !.op = "get", !.user = u])
    /\ UNCHANGED <<prefDocs, prefCache, writes, okSets, envVars>>
    /\ UNCHANGED otherThanPref

\* update_preference(user_id, key, value): get_preferences, then a blind set_preferences
CallUpdate(c, u, k, v) ==
    /\ pc[c] = "idle"
    /\ CanStartWrite(u)
    /\ pc' = [pc EXCEPT ![c] = "get_cache"]
    /\ Begin(c, [NoCall EXCEPT !.op = "update", !.user = u, !.key = k, !.val = v])
    /\ UNCHANGED <<prefDocs, prefCache, writes, okSets, envVars>>
    /\ UNCHANGED otherThanPref

\* merge_preferences(old, new): merged = dict(old); merged[k] = v for new's items
MergePreferences(old, new) == {x \in old : ~HasKey(new, x[1])} \cup new

\* A preference worker that commits with no expected_version, whatever it read.
CommitVersioned_Never(current) == FALSE

\* version = current.get("_version") is not None: set_preferences then takes
\* the versioned branch
CommitVersioned(current) == HasKey(current, "_version")

\* get_preferences hands `out` (None when isNull) to its caller: to the client;
\* to update_preference, which does prefs = out or {}; prefs[key] = value and
\* calls set_preferences(user_id, prefs) with no expected_version; or to
\* process_job of the preference worker, which does current = out or {}, takes
\* its "_version" away, merges the extracted preferences over it and calls
\* set_preferences(user_id, new_prefs, expected_version=version).
GetReturns(c, out, isNull) ==
    IF call[c].op = "update"
    THEN /\ pc' = [pc EXCEPT ![c] = "set_update_one"]
         /\ call' = [call EXCEPT ![c].prefs =
                         DictPut(IF isNull THEN {} ELSE out, call[c].key, call[c].val),
                                 ![c].startVer = VersionOf(prefDocs, call[c].user)]
    ELSE IF call[c].op = "job"
    THEN LET current == IF isNull THEN {} ELSE out
         IN  /\ pc' = [pc EXCEPT ![c] = "set_update_one"]
             /\ call' = [call EXCEPT
                   ![c].out = current,
                   ![c].outNull = isNull,
                   ![c].prefs = MergePreferences({x \in current : x[1] # "_version"},
                                                 call[c].extracted),
                   ![c].versioned = CommitVersioned(current),
                   ![c].expected = IF HasKey(current, "_version")
                                   THEN (CHOOSE x \in current : x[1] = "_version")[2]
                                   ELSE 0,
                   ![c].startVer = VersionOf(prefDocs, call[c].user)]
    ELSE /\ pc' = [pc EXCEPT ![c] = "ret"]
         /\ call' = [call EXCEPT ![c].out = IF isNull THEN {} ELSE out,
                                 ![c].outNull = isNull]

\* get_preferences, the cache read: a hit returns the decoded entry; a miss, a
\* disabled cache, a missing client or a raising read falls through to MongoDB.
get_preferences_cache(c) ==
    /\ pc[c] = "get_cache"
    /\ IF cacheEnabled /\ redisUp /\ call[c].user \in DOMAIN prefCache
       THEN GetReturns(c, PrefLoads(prefCache[call[c].user].value), FALSE)
       ELSE /\ pc' = [pc EXCEPT ![c] = "get_find_one"]
            /\ UNCHANGED call
    /\ UNCHANGED <<prefDocs, prefCache, writes, okSets, envVars>>
    /\ UNCHANGED otherThanPref

\* get_preferences, the document read: None when the database is unavailable, the
\* read raises or no document exists; else out = {**prefs, "_version": version}.
get_preferences_find_one(c) ==
    /\ pc[c] = "get_find_one"
    /\ LET u == call[c].user
       IN  IF ~mongoUp \/ u \notin DOMAIN prefDocs
           THEN GetReturns(c, {}, TRUE)
           ELSE IF cacheEnabled
                THEN /\ pc' = [pc EXCEPT ![c] = "get_warm"]
                     /\ call' = [call EXCEPT ![c].out = Decorate(prefDocs[u])]
                ELSE GetReturns(c, Decorate(prefDocs[u]), FALSE)
    /\ UNCHANGED <<prefDocs, prefCache, writes, okSets, envVars>>
    /\ UNCHANGED otherThanPref

\* get_preferences, warming the cache: client.set(key, json, ex=3600). With Redis
\* gone either get_client() gives None (the entry is skipped, out is returned)
\* or the cached client raises, and the enclosing except returns None.
get_preferences_warm(c) ==
    /\ pc[c] = "get_warm"
    /\ LET u == call[c].user
       IN  IF redisUp
           THEN /\ prefCache' = [v \in DOMAIN prefCache \cup {u} |->
                                    IF v = u
                                    THEN [value |-> PrefDumps(call[c].out),
                                          ex |-> PREF_CACHE_TTL]
                                    ELSE prefCache[v]]
                /\ GetReturns(c, call[c].out, FALSE)
           ELSE /\ UNCHANGED prefCache
                /\ \E raised \in BOOLEAN : GetReturns(c, call[c].out, raised)
    /\ UNCHANGED <<prefDocs, writes, okSets, envVars>>
    /\ UNCHANGED otherThanPref

\* The entry pref:{user_id} reaches the end of its 3600 s.
PrefCacheExpire(u) ==
    /\ u \in DOMAIN prefCache
    /\ prefCache' = [v \in DOMAIN prefCache \ {u} |-> prefCache[v]]
    /\ UNCHANGED <<prefDocs, pc, call, writes, okSets, envVars>>
    /\ UNCHANGED otherThanPref

\* The caller has its result and goes on.
Return(c) ==
    /\ pc[c] = "ret"
    /\ pc' = [pc EXCEPT ![c] = "idle"]
    /\ call' = [call EXCEPT ![c] = NoCall]
    /\ UNCHANGED <<prefDocs, prefCache, writes, okSets, envVars>>
    /\ UNCHANGED otherThanPref

----------------------------------------------------------------------------
(* Intra-session store: Redis list session:{session_id} with a sliding TTL *)

Sessions == {"s1", "s2"}
OneSession == {"s1"}
Clients == {"p1", "p2"}
Messages == {[type |-> "human", content |-> "a"], [type |-> "ai", content |-> "b"]}

\* json.dumps(message, ensure_ascii=False) and json.loads
JsonDumps(m) == <<"json", m.type, m.content>>
JsonLoads(j) == [type |-> j[2], content |-> j[3]]

\* [json.loads(msg) for msg in raw_msgs]
LoadAll(raw) == [i \in 1..Len(raw) |-> JsonLoads(raw[i])]

\* LRANGE key 0 -1
LRangeAll(list) == list

\* LRANGE key -limit -1: the last `limit` entries
LRangeLast(list, limit) ==
    IF limit >= Len(list) THEN list ELSE SubSeq(list, Len(list) - limit + 1, Len(list))

\* The list after LPUSH, the push at the wrong end.
RPush_AtHead(list, j) == <<j>> \o list

\* RPUSH key value
RPush(list, j) == Append(list, j)

\* get_messages on a reachable Redis: "if limit:" takes the last N, else all
\* (limit = 0 stands for None, which Python treats alike).
GetMessages(list, limit) ==
    LoadAll(IF limit # 0 THEN LRangeLast(list, limit) ELSE LRangeAll(list))

NoSCall == [op |-> "none", sid |-> "s1", msg |-> [type |-> "human", content |-> "a"],
            msgs |-> <<>>, result |-> FALSE, user |-> "u1", success |-> FALSE,
            cleared |-> FALSE, hits |-> <<>>, clean |-> TRUE, made |-> 0, after |-> 0,
            jobs0 |-> 0, superseded |-> FALSE, over |-> <<>>,
            query |-> <<>>, k |-> 0, minSim |-> 0]

InitSessVars ==
    /\ sessLog = [s \in Sessions |-> <<>>]
    /\ sessTTL = [s \in Sessions |-> 0]
    /\ sessExpires = [s \in Sessions |-> FALSE]
    /\ spc = [c \in Clients |-> "idle"]
    /\ scall = [c \in Clients |-> NoSCall]
    /\ hist = [s \in Sessions |-> <<>>]
    /\ idle = [s \in Sessions |-> INTRA_SESSION_TTL]

\* The messages pushed onto the key of s since it was last deleted, in push order.
HistMsgs(s) == [i \in 1..Len(hist[s]) |-> hist[s][i].msg]

\* Pushes in flight on a session.
PushesInFlight(s) == {c \in Clients : spc[c] \in {"rpush", "expire"} /\ scall[c].sid = s}

\* save_message(session_id, message)
CallAppend(c, s, m) ==
    /\ spc[c] = "idle"
    /\ Len(sessLog[s]) + Cardinality(PushesInFlight(s)) < MaxLog
    /\ spc' = [spc EXCEPT ![c] = "rpush"]
    /\ scall' = [scall EXCEPT ![c] = [NoSCall EXCEPT !.op = "append", !.sid = s, !.msg = m]]
    /\ UNCHANGED <<sessLog, sessTTL, sessExpires, hist, idle, envVars>>
    /\ UNCHANGED otherThanSess

\* save_message: get_client(), then client.rpush(key, json.dumps(message)).
\* A push onto a missing key creates it without expiry.
save_message_rpush(c) ==
    /\ spc[c] = "rpush"
    /\ LET s == scall[c].sid
       IN  IF ~redisUp
           THEN /\ spc' = [spc EXCEPT ![c] = "ret"]
                /\ scall' = [scall EXCEPT ![c].result = FALSE]
                /\ UNCHANGED <<sessLog, sessExpires, hist, finLog>>
           ELSE /\ sessLog' = [sessLog EXCEPT ![s] = RPush(@, JsonDumps(scall[c].msg))]
                /\ finLog' = [finLog EXCEPT ![s] = <<>>]
                /\ scall' = [d \in Clients |->
                                 IF spc[d] \in {"fin_get", "fin_save", "fin_queue", "fin_clear"}
                                    /\ scall[d].sid = s
                                 THEN [scall[d] EXCEPT !.after = -1] ELSE scall[d]]
                /\ sessExpires' = [sessExpires EXCEPT ![s] = IF sessLog[s] = <<>> THEN FALSE ELSE @]
                /\ hist' = [hist EXCEPT ![s] = Append(@, [msg |-> scall[c].msg, by |-> c,
                                                        state |-> "flight"])]
                /\ spc' = [spc EXCEPT ![c] = "expire"]
    /\ UNCHANGED <<sessTTL, idle, envVars>>
    /\ UNCHANGED <<prefVars, storeVars, queueVars, workerVars, finalizedOk>>

\* The key was not deleted since c pushed onto it.
PushSurvives(c) ==
    \E i \in 1..Len(hist[scall[c].sid]) :
        hist[scall[c].sid][i].by = c /\ hist[scall[c].sid][i].state = "flight"

\* The history entry of c's push in flight, if the key was not deleted since.
Settle(h, c, st) ==
    [i \in 1..Len(h) |-> IF h[i].by = c /\ h[i].state = "flight"
                          THEN [h[i] EXCEPT !.state = st] ELSE h[i]]

\* EXPIRE that forgets to write the time-to-live.
ExpireTTL_Keep(ttl, exists) == ttl

\* The time-to-live after EXPIRE key INTRA_SESSION_TTL: reset in full on a key
\* that exists, nothing on a missing key.
ExpireTTL(ttl, exists) == IF exists THEN INTRA_SESSION_TTL ELSE ttl

\* save_message: client.expire(key, INTRA_SESSION_TTL), return True; a raising
\* expire returns False with the message already pushed.
save_message_expire(c) ==
    /\ spc[c] = "expire"
    /\ LET s == scall[c].sid
           exists == sessLog[s] # <<>>
       IN  IF ~redisUp
           THEN /\ scall' = [scall EXCEPT ![c].result = FALSE]
                /\ hist' = [hist EXCEPT ![s] = Settle(@, c, "failed")]
                /\ UNCHANGED <<sessTTL, sessExpires, idle>>
           ELSE /\ sessTTL' = [sessTTL EXCEPT ![s] = ExpireTTL(@, exists)]
                /\ sessExpires' = [sessExpires EXCEPT ![s] = exists]
                /\ scall' = [scall EXCEPT ![c].result = TRUE]
                /\ hist' = [hist EXCEPT ![s] = Settle(@, c, "ok")]
                /\ idle' = [idle EXCEPT ![s] = IF PushSurvives(c) THEN 0 ELSE @]
    /\ spc' = [spc EXCEPT ![c] = "ret"]
    /\ UNCHANGED <<sessLog, envVars>>
    /\ UNCHANGED otherThanSess

\* get_messages(session_id, limit): [] when Redis is unavailable or raises
get_messages(c, s, limit) ==
    /\ spc[c] = "idle"
    /\ spc' = [spc EXCEPT ![c] = "ret"]
    /\ scall' = [scall EXCEPT ![c] = [NoSCall EXCEPT !.op = "list", !.sid = s, !.result = redisUp,
                       !.msgs = IF redisUp THEN GetMessages(sessLog[s], limit) ELSE <<>>]]
    /\ UNCHANGED <<sessLog, sessTTL, sessExpires, hist, idle, envVars>>
    /\ UNCHANGED otherThanSess

\* clear_session(session_id): DEL key
clear_session(c, s) ==
    /\ spc[c] = "idle"
    /\ spc' = [spc EXCEPT ![c] = "ret"]
    /\ scall' = [scall EXCEPT ![c] = [NoSCall EXCEPT !.op = "clear", !.sid = s, !.result = redisUp]]
    /\ IF redisUp
       THEN /\ sessLog' = [sessLog EXCEPT ![s] = <<>>]
            /\ sessTTL' = [sessTTL EXCEPT ![s] = 0]
            /\ sessExpires' = [sessExpires EXCEPT ![s] = FALSE]
            /\ hist' = [hist EXCEPT ![s] = <<>>]
            /\ idle' = [idle EXCEPT ![s] = INTRA_SESSION_TTL]
       ELSE UNCHANGED <<sessLog, sessTTL, sessExpires, hist, idle>>
    /\ UNCHANGED envVars
    /\ UNCHANGED otherThanSess

\* refresh_ttl(session_id): EXPIRE key INTRA_SESSION_TTL
refresh_ttl(c, s) ==
    /\ spc[c] = "idle"
    /\ spc' = [spc EXCEPT ![c] = "ret"]
    /\ scall' = [scall EXCEPT ![c] = [NoSCall EXCEPT !.op = "refresh", !.sid = s, !.result = redisUp]]
    /\ IF redisUp
       THEN /\ sessTTL' = [sessTTL EXCEPT ![s] = ExpireTTL(@, sessLog[s] # <<>>)]
            /\ sessExpires' = [sessExpires EXCEPT ![s] = sessLog[s] # <<>>]
       ELSE UNCHANGED <<sessTTL, sessExpires>>
    /\ UNCHANGED <<sessLog, hist, idle, envVars>>
    /\ UNCHANGED otherThanSess

\* The client has its result and goes on.
SReturn(c) ==
    /\ spc[c] = "ret"
    /\ spc' = [spc EXCEPT ![c] = "idle"]
    /\ scall' = [scall EXCEPT ![c] = NoSCall]
    /\ UNCHANGED <<sessLog, sessTTL, sessExpires, hist, idle, envVars>>
    /\ UNCHANGED otherThanSess

\* TickSeconds pass: every key with an expiry loses them, and a key whose time is
\* up is deleted by Redis.
Tick ==
    /\ LET left(s) == sessTTL[s] - TickSeconds
           dies(s) == sessLog[s] # <<>> /\ sessExpires[s] /\ left(s) <= 0
       IN  /\ sessTTL' = [s \in Sessions |->
                             IF sessLog[s] # <<>> /\ sessExpires[s] /\ ~dies(s)
                             THEN left(s) ELSE IF dies(s) THEN 0 ELSE sessTTL[s]]
           /\ sessLog' = [s \in Sessions |-> IF dies(s) THEN <<>> ELSE sessLog[s]]
           /\ sessExpires' = [s \in Sessions |-> IF dies(s) THEN FALSE ELSE sessExpires[s]]
           /\ hist' = [s \in Sessions |-> IF dies(s) THEN <<>> ELSE hist[s]]
    /\ idle' = [s \in Sessions |->
                   IF idle[s] + TickSeconds >= INTRA_SESSION_TTL
                   THEN INTRA_SESSION_TTL ELSE idle[s] + TickSeconds]
    /\ UNCHANGED <<spc, scall, envVars>>
    /\ UNCHANGED otherThanSess

----------------------------------------------------------------------------
(* Inter-session store: conversations in MongoDB, points in Qdrant, embedding *)
(* jobs on the Redis stream                                                    *)

Users == {"u1", "u2"}
ConvSessions == {"s1", "s2"}
MaxJobs == 2
MaxPoints == 3

\* "for msg in messages[:10]"
SummaryHead == 10

\* _create_summary(messages): "[type] content" of the first messages, joined.
\* Contents of the model are shorter than the cuts at 150 and 800 characters.
CreateSummary(msgs) ==
    [i \in 1..(IF Len(msgs) > SummaryHead THEN SummaryHead ELSE Len(msgs)) |->
        <<msgs[i].type, msgs[i].content>>]

\* A summary that gives an unpaired last message a pair of its own.
ConversationSummary_KeepsTrailing(msgs) ==
    [i \in 1..((Len(msgs) + 1) \div 2) |->
        <<msgs[2 * i - 1].content, IF 2 * i <= Len(msgs) THEN msgs[2 * i].content ELSE "">>]

\* _create_conversation_summary(messages): "Q: ..\nA: .." for the messages at
\* (0, 1), (2, 3), ... of range(0, len - 1, 2); <<>> is the empty string.
ConversationSummary(msgs) ==
    [i \in 1..(Len(msgs) \div 2) |-> <<msgs[2 * i - 1].content, msgs[2 * i].content>>]

\* A document that holds the messages last first.
ConvDoc_Reversed(u, s, msgs, tu, tc) ==
    [user_id |-> u, session_id |-> s,
     messages |-> [i \in 1..Len(msgs) |-> msgs[Len(msgs) + 1 - i]],
     summary |-> CreateSummary(msgs), message_count |-> Len(msgs),
     updated_at |-> tu, created_at |-> tc]

\* The document a save leaves: conv, with the updated_at and created_at given.
ConvDoc(u, s, msgs, tu, tc) ==
    [user_id |-> u, session_id |-> s, messages |-> msgs,
     summary |-> CreateSummary(msgs), message_count |-> Len(msgs),
     updated_at |-> tu, created_at |-> tc]

\* The clock stops at MaxTime.
MaxTime == 3

\* The three time.time() of save_conversation, in the order of their evaluation:
\* "updated_at" and "created_at" of conv, then "created_at" of $setOnInsert. Each
\* element is what the clock has gained since the read before it.
ClockReads ==
    {r \in {0, 1} \X {0, 1} \X {0, 1} : now + r[1] + r[2] + r[3] <= MaxTime}

\* update_one({"session_id": s}, {"$set": conv, "$setOnInsert": {"created_at": ..}},
\* upsert=True): conv names created_at as well.
SaveConflict ==
    UpdateConflict({"user_id", "session_id", "messages", "summary", "metadata",
                    "updated_at", "created_at"}, {}, {"created_at"})

\* save_conversation returns True: the database is there ("if not db" read as the
\* None test) and update_one does not raise.
SaveSucceeds == mongoUp /\ ~(rejectsConflicts /\ SaveConflict)

\* An upsert that leaves a conversation that is already there as it is.
SaveConversation_KeepFirst(docs, u, s, msgs, tu, tc, ti) ==
    IF s \in DOMAIN docs THEN docs ELSE docs @@ (s :> ConvDoc(u, s, msgs, tu, ti))

\* The collection after the upsert by session_id, on a server that applies the
\* operators in the order written: $set writes all of conv, created_at (tc)
\* included, into the document found or inserted, and $setOnInsert writes its
\* created_at (ti) into an inserted one.
SaveConversation(docs, u, s, msgs, tu, tc, ti) ==
    [x \in DOMAIN docs \cup {s} |->
        IF x = s
        THEN ConvDoc(u, s, msgs, tu, IF s \in DOMAIN docs THEN tc ELSE ti)
        ELSE docs[x]]

\* embedder.embed_query(text): a function of the text.
Embed(text) == <<"vec", text>>

\* Cosine similarity of two vectors, in hundredths.
Score(qv, pv) == IF qv = pv THEN 100 ELSE 50

\* PointStruct(id=uuid4(), vector, payload); "content": content[:500] keeps the
\* contents of the model whole.
Point(u, s, content, source) ==
    [user_id |-> u, session_id |-> s, content |-> content, source |-> source,
     vector |-> Embed(content)]

\* job_data of queue_embedding_job
Job(u, s, content) ==
    [user_id |-> u, session_id |-> s, content |-> content, created_at |-> "float"]

\* Jobs made so far, on the stream or embedded at once.
JobsMade == Len(stream) + Cardinality({i \in 1..Len(points) : points[i].source = "immediate"})

\* _embed_and_store_immediately(user_id, session_id, content) returns True
EmbedNowSucceeds == qdrantUp /\ embedUp

\* A queue_embedding_job that never takes the stream.
QueueTakesStream_Never == FALSE

\* queue_embedding_job takes the stream: async embedding is on and Redis answers
\* (a missing client and a raising XADD both fall back to immediate embedding).
QueueTakesStream == asyncEnabled /\ redisUp

\* A queue_embedding_job that embeds at once whatever it publishes.
QueueEmbeddingJob_Both(u, s, content) ==
    /\ stream' = IF QueueTakesStream THEN Append(stream, Job(u, s, content)) ELSE stream
    /\ points' = IF EmbedNowSucceeds
                 THEN Append(points, Point(u, s, content, "immediate"))
                 ELSE points

\* queue_embedding_job(user_id, session_id, content): XADD, or embed and upsert at once
QueueEmbeddingJob(u, s, content) ==
    IF QueueTakesStream
    THEN /\ stream' = Append(stream, Job(u, s, content))
         /\ UNCHANGED points
    ELSE /\ points' = IF EmbedNowSucceeds
                      THEN Append(points, Point(u, s, content, "immediate"))
                      ELSE points
         /\ UNCHANGED stream

QueueResult == QueueTakesStream \/ EmbedNowSucceeds

----------------------------------------------------------------------------
(* finalize_session: move the log of a session to MongoDB and queue its embedding *)

MaxFinalizes == 2

FinalizesInFlight ==
    {c \in Clients : spc[c] \in {"fin_get", "fin_save", "fin_queue", "fin_clear"}}

\* The conversation of session s as the collection holds it, <<>> without one.
DocOf(s) == IF s \in DOMAIN convDocs THEN <<convDocs[s]>> ELSE <<>>

\* The jobs of session s so far: its entries on the stream and its points.
MadeFor(s) ==
    Cardinality({i \in 1..Len(stream) : stream[i].session_id = s})
    + Cardinality({i \in 1..Len(points) : points[i].session_id = s})

\* What the history keeps of a finalize call of client c that returns `result`.
FinRecord(c, result, clean, made) ==
    [user |-> scall[c].user, n |-> Len(scall[c].msgs), msgs |-> scall[c].msgs,
     result |-> result, clean |-> clean, made |-> made, after |-> scall[c].after,
     doc |-> DocOf(scall[c].sid), superseded |-> scall[c].superseded,
     over |-> scall[c].over]

\* The entries of the stream that carry user_id u and session_id s.
JobsFor(u, s) ==
    Cardinality({i \in 1..Len(stream) : stream[i].user_id = u /\ stream[i].session_id = s})

\* finalize_session(user_id, session_id)
CallFinalize(c, u, s) ==
    /\ spc[c] = "idle"
    /\ JobsMade + Cardinality(FinalizesInFlight) < MaxJobs
    /\ Len(finLog[s]) + Cardinality({d \in FinalizesInFlight : scall[d].sid = s}) < MaxFinalizes
    /\ spc' = [spc EXCEPT ![c] = "fin_get"]
    /\ scall' = [scall EXCEPT ![c] = [NoSCall EXCEPT !.op = "finalize", !.sid = s, !.user = u,
                                                      !.after = Len(finLog[s]),
                                                      !.jobs0 = JobsFor(u, s)]]
    /\ UNCHANGED <<sessLog, sessTTL, sessExpires, hist, idle, envVars>>
    /\ UNCHANGED otherThanSess

\* A finalize_session without its early return: an empty log is saved like any other.
finalize_get_NoEarlyReturn(c) ==
    /\ spc[c] = "fin_get"
    /\ LET msgs == IF redisUp THEN GetMessages(sessLog[scall[c].sid], 0) ELSE <<>>
       IN  scall' = [scall EXCEPT ![c].msgs = msgs, ![c].clean = redisUp]
    /\ spc' = [spc EXCEPT ![c] = "fin_save"]
    /\ UNCHANGED <<sessLog, sessTTL, sessExpires, hist, idle, envVars>>
    /\ UNCHANGED <<prefVars, storeVars, queueVars, workerVars, finHist>>

\* 1. messages = get_messages(session_id); "if not messages: return True"
finalize_get(c) ==
    /\ spc[c] = "fin_get"
    /\ LET msgs == IF redisUp THEN GetMessages(sessLog[scall[c].sid], 0) ELSE <<>>
       IN  /\ scall' = [scall EXCEPT ![c].msgs = msgs, ![c].result = (msgs = <<>>),
                                     ![c].clean = redisUp]
           /\ spc' = [spc EXCEPT ![c] = IF msgs = <<>> THEN "ret" ELSE "fin_save"]
           /\ finLog' = IF msgs = <<>>
                        THEN [finLog EXCEPT ![scall[c].sid] = Append(@, FinRecord(c, TRUE, redisUp, 0))]
                        ELSE finLog
    /\ UNCHANGED <<sessLog, sessTTL, sessExpires, hist, idle, envVars>>
    /\ UNCHANGED <<prefVars, storeVars, queueVars, workerVars, finalizedOk>>

\* 2. success = save_conversation(user_id, session_id, messages)
finalize_save(c) ==
    /\ spc[c] = "fin_save"
    /\ \E r \in ClockReads :
          LET tu == now + r[1]
              tc == tu + r[2]
              ti == tc + r[3]
          IN  /\ convDocs' = IF SaveSucceeds
                             THEN SaveConversation(convDocs, scall[c].user, scall[c].sid,
                                                   scall[c].msgs, tu, tc, ti)
                             ELSE convDocs
              /\ now' = IF mongoUp THEN ti ELSE now
    /\ scall' = [d \in Clients |->
                     IF d = c
                     THEN [scall[c] EXCEPT !.success = SaveSucceeds, !.clean = @ /\ mongoUp]
                     ELSE IF /\ SaveSucceeds
                             /\ spc[d] \in {"fin_queue", "fin_clear"}
                             /\ scall[d].sid = scall[c].sid /\ scall[d].success
                          THEN [scall[d] EXCEPT !.superseded = TRUE, !.over = scall[c].msgs]
                          ELSE scall[d]]
    /\ spc' = [spc EXCEPT ![c] = IF SaveSucceeds /\ asyncEnabled THEN "fin_queue" ELSE "fin_clear"]
    /\ UNCHANGED <<sessLog, sessTTL, sessExpires, hist, idle, backVars, cfgVars, prefVars>>
    /\ UNCHANGED <<points, queueVars, workerVars, finHist>>

\* 3. queue_embedding_job(user_id, session_id, _create_conversation_summary(messages)),
\* its result dropped
finalize_queue(c) ==
    /\ spc[c] = "fin_queue"
    /\ QueueEmbeddingJob(scall[c].user, scall[c].sid, ConversationSummary(scall[c].msgs))
    /\ spc' = [spc EXCEPT ![c] = "fin_clear"]
    /\ scall' = [scall EXCEPT ![c].made = IF QueueResult THEN 1 ELSE 0,
                              ![c].clean = @ /\ redisUp]
    /\ UNCHANGED <<sessLog, sessTTL, sessExpires, hist, idle, envVars, prefVars>>
    /\ UNCHANGED <<convDocs, groupCreated, lastDelivered, pending, workerVars, finHist>>

\* 4. clear_session(session_id), whatever success is; 5. return success
finalize_clear(c) ==
    /\ spc[c] = "fin_clear"
    /\ LET s == scall[c].sid
       IN  /\ IF redisUp
              THEN /\ sessLog' = [sessLog EXCEPT ![s] = <<>>]
                   /\ sessTTL' = [sessTTL EXCEPT ![s] = 0]
                   /\ sessExpires' = [sessExpires EXCEPT ![s] = FALSE]
                   /\ hist' = [hist EXCEPT ![s] = <<>>]
                   /\ idle' = [idle EXCEPT ![s] = INTRA_SESSION_TTL]
              ELSE UNCHANGED <<sessLog, sessTTL, sessExpires, hist, idle>>
           /\ scall' = [scall EXCEPT ![c].result = scall[c].success,
                                     ![c].cleared = redisUp /\ sessLog[s] # <<>>,
                                     ![c].clean = @ /\ redisUp]
           /\ finalizedOk' = IF scall[c].success
                             THEN finalizedOk \cup {<<scall[c].user, s, Len(scall[c].msgs)>>}
                             ELSE finalizedOk
           /\ finLog' = [finLog EXCEPT ![s] =
                            Append(@, FinRecord(c, scall[c].success, scall[c].clean /\ redisUp,
                                                scall[c].made))]
    /\ spc' = [spc EXCEPT ![c] = "ret"]
    /\ UNCHANGED <<envVars, prefVars, storeVars, queueVars, workerVars>>

----------------------------------------------------------------------------
(* retrieve_similar: search the points of a user and fetch the conversations *)

Queries == {<<>>, <<<<"a", "b">>>>}
MaxK == 2
SimLevels == {40, 80}

\* The filter that lets every point through.
SearchFilter_Any(pt, u) == TRUE

\* Filter(must=[FieldCondition(key="user_id", match=MatchValue(value=user_id))])
SearchFilter(pt, u) == pt.user_id = u

\* The ids 1..n that satisfy Test, ascending.
IdsWhere(n, Test(_)) == SelectSeq([i \in 1..n |-> i], Test)

\* A slice that keeps everything.
Take_All(seq, n) == seq

\* The first n elements of a sequence.
Take(seq, n) == IF Len(seq) <= n THEN seq ELSE SubSeq(seq, 1, n)

\* qdrant.search(query_vector, query_filter, limit, score_threshold): the ids of
\* the points that pass the filter and the threshold, best score first, equal
\* scores in the order of the collection.
Search(pts, u, qv, limit, threshold) ==
    LET hit(i, sc) == /\ SearchFilter(pts[i], u)
                      /\ Score(qv, pts[i].vector) = sc
                      /\ sc >= threshold
        best(i) == hit(i, 100)
        rest(i) == hit(i, 50)
    IN  Take(IdsWhere(Len(pts), best) \o IdsWhere(Len(pts), rest), limit)

\* full_content = doc.get("summary") or content_preview, the document found by
\* session_id alone; the payload content when there is no database or no document
ItemContent(pt) ==
    IF mongoUp /\ pt.session_id \in DOMAIN convDocs /\ convDocs[pt.session_id].summary # <<>>
    THEN convDocs[pt.session_id].summary
    ELSE pt.content

\* (MemoryItem(id, user_id, session_id, content, metadata=payload), hit.score)
Item(i, u, qv) ==
    [id |-> i, user_id |-> u, session_id |-> points[i].session_id,
     content |-> ItemContent(points[i]),
     metadata |-> [user_id |-> points[i].user_id, session_id |-> points[i].session_id,
                   content |-> points[i].content],
     score |-> Score(qv, points[i].vector)]

\* retrieve_similar(user_id, query, k, min_similarity): [] without a Qdrant client
\* and when the embedding or the search raises; search_results[:k] of limit = k * 2
RetrieveSimilar(u, q, k, minSim) ==
    IF ~qdrantUp \/ ~embedUp
    THEN <<>>
    ELSE LET found == Take(Search(points, u, Embed(q), k * 2, minSim), k)
         IN  [n \in 1..Len(found) |-> Item(found[n], u, Embed(q))]

retrieve_similar(c, u, q, k, minSim) ==
    /\ spc[c] = "idle"
    /\ spc' = [spc EXCEPT ![c] = "ret"]
    /\ scall' = [scall EXCEPT ![c] = [NoSCall EXCEPT !.op = "retrieve", !.user = u,
                                         !.query = q, !.k = k, !.minSim = minSim,
                                         !.hits = RetrieveSimilar(u, q, k, minSim)]]
    /\ UNCHANGED <<sessLog, sessTTL, sessExpires, hist, idle, envVars>>
    /\ UNCHANGED otherThanSess

\* save_conversation(user_id, session_id, messages), called on the store
save_conversation(c, u, s, msgs) ==
    /\ spc[c] = "idle"
    /\ spc' = [spc EXCEPT ![c] = "ret"]
    /\ scall' = [scall EXCEPT ![c] = [NoSCall EXCEPT !.op = "save", !.user = u,
                                         !.result = SaveSucceeds]]
    /\ \E r \in ClockReads :
          LET tu == now + r[1]
              tc == tu + r[2]
              ti == tc + r[3]
          IN  /\ convDocs' = IF SaveSucceeds
                             THEN SaveConversation(convDocs, u, s, msgs, tu, tc, ti)
                             ELSE convDocs
              /\ now' = IF mongoUp THEN ti ELSE now
    /\ UNCHANGED <<sessLog, sessTTL, sessExpires, hist, idle, backVars, cfgVars, prefVars>>
    /\ UNCHANGED <<points, queueVars, workerVars, finHist>>

\* queue_embedding_job(user_id, session_id, content), called on the store
queue_embedding_job(c, u, s, content) ==
    /\ spc[c] = "idle"
    /\ JobsMade < MaxJobs
    /\ Len(points) < MaxPoints
    /\ QueueEmbeddingJob(u, s, content)
    /\ spc' = [spc EXCEPT ![c] = "ret"]
    /\ scall' = [scall EXCEPT ![c] = [NoSCall EXCEPT !.op = "queue", !.user = u,
                                         !.result = QueueResult]]
    /\ UNCHANGED <<sessLog, sessTTL, sessExpires, hist, idle, envVars, prefVars>>
    /\ UNCHANGED <<convDocs, groupCreated, lastDelivered, pending, workerVars, finHist>>

----------------------------------------------------------------------------
(* Embedding worker (run_worker) and controller (run_local) *)

Workers == {"worker-1"}
Batch == 2
MaxKills == 1

\* The ids lo..hi as a sequence.
IdRange(lo, hi) == [i \in 1..(hi - lo + 1) |-> lo + i - 1]

\* An XREADGROUP with the cursor "0": the first entries of the stream again.
NewEntries_FromStart ==
    IdRange(1, IF Len(stream) < Batch THEN Len(stream) ELSE Batch)

\* XREADGROUP GROUP g consumer COUNT batch STREAMS key ">": the entries never
\* delivered to the group, at most `batch` of them
NewEntries ==
    IdRange(lastDelivered + 1,
            IF Len(stream) < lastDelivered + Batch THEN Len(stream) ELSE lastDelivered + Batch)

\* The pending entries list without entry e (XACK).
Ack(pel, e) == [x \in DOMAIN pel \ {e} |-> pel[x]]

\* What is left of the batch after its first entry, and where the loop goes.
RestOf(w) == Tail(wbatch[w])
AfterEntry(w) == IF RestOf(w) = <<>> THEN "read" ELSE "process"

\* run_local: Redis client (return 1 without), ensure_group, spawn the workers
run_local_start ==
    /\ ctl = "off"
    /\ redisUp
    /\ ctl' = "running"
    /\ groupCreated' = TRUE
    /\ wstate' = [w \in DOMAIN wstate |-> "start"]
    /\ UNCHANGED <<envVars, prefVars, sessVars, storeVars, finHist>>
    /\ UNCHANGED <<stream, lastDelivered, pending, wbatch, kills, upserts, orphaned>>

\* An XAUTOCLAIM with min_idle 0: every pending entry changes hands.
AutoclaimStale_All(pel) ==
    [e \in DOMAIN pel |-> [owner |-> "ctl", stale |-> FALSE]]

\* XAUTOCLAIM key g "ctl" min_idle 0-0: every pending entry idle for longer than
\* stale_ms becomes the controller's, its idle time reset; an error is printed
AutoclaimStale(pel) ==
    IF redisUp
    THEN [e \in DOMAIN pel |-> IF pel[e].stale THEN [owner |-> "ctl", stale |-> FALSE] ELSE pel[e]]
    ELSE pel

\* A worker process that has exited: killed or crashed ("dead"), or ended by
\* SIGINT or SIGTERM ("stopped"); p.poll() is not None.
Exited == {"dead", "stopped"}

\* A round of the loop that claims and starts nothing again.
run_local_pass_NoRespawn ==
    /\ ctl = "running"
    /\ pending' = AutoclaimStale(pending)
    /\ UNCHANGED <<envVars, prefVars, sessVars, storeVars, finHist>>
    /\ UNCHANGED <<stream, groupCreated, lastDelivered, ctl, wstate, wbatch, kills,
                   upserts, orphaned>>

\* One round of the loop of run_local: autoclaim_stale(consumer="ctl"), then every
\* worker whose process has exited is started again under its name
run_local_pass ==
    /\ ctl = "running"
    /\ pending' = AutoclaimStale(pending)
    /\ wstate' = [w \in DOMAIN wstate |-> IF wstate[w] \in Exited THEN "start" ELSE wstate[w]]
    /\ UNCHANGED <<envVars, prefVars, sessVars, storeVars, finHist>>
    /\ UNCHANGED <<stream, groupCreated, lastDelivered, ctl, wbatch, kills, upserts, orphaned>>

\* _stop, on SIGINT or SIGTERM to the controller: stopping = True, terminate()
\* on every worker, wait(5) and kill() the stragglers, SystemExit. The worker
\* installs no handler for SIGTERM, so its process ends where it stands, with
\* the batch it holds.
run_local_stop ==
    /\ ctl = "running"
    /\ ctl' = "stopped"
    /\ wstate' = [w \in DOMAIN wstate |-> IF wstate[w] \in Exited THEN wstate[w] ELSE "stopped"]
    /\ UNCHANGED <<envVars, prefVars, sessVars, storeVars, queueVars, finHist>>
    /\ UNCHANGED <<wbatch, kills, upserts, orphaned>>

\* run_worker before its loop: Redis client, Qdrant client (return 1 without
\* either), ensure_group (XGROUP CREATE key g 0 MKSTREAM)
worker_start(w) ==
    /\ wstate[w] = "start"
    /\ IF redisUp /\ qdrantUp
       THEN /\ groupCreated' = TRUE
            /\ wstate' = [wstate EXCEPT ![w] = "read"]
       ELSE /\ wstate' = [wstate EXCEPT ![w] = "dead"]
            /\ UNCHANGED groupCreated
    /\ wbatch' = [wbatch EXCEPT ![w] = <<>>]
    /\ UNCHANGED <<envVars, prefVars, sessVars, storeVars, finHist>>
    /\ UNCHANGED <<stream, lastDelivered, pending, ctl, kills, upserts, orphaned>>

\* entries = redis.xreadgroup(group, consumer, {stream_key: ">"}, count=batch):
\* the new entries become pending for this consumer.  No entries, or an error,
\* and the loop comes back here.
worker_xreadgroup(w) ==
    /\ wstate[w] = "read"
    /\ redisUp /\ groupCreated
    /\ NewEntries # <<>>
    /\ pending' = [e \in DOMAIN pending \cup {NewEntries[i] : i \in 1..Len(NewEntries)} |->
                      IF e \in DOMAIN pending THEN pending[e]
                      ELSE [owner |-> w, stale |-> FALSE]]
    /\ lastDelivered' = NewEntries[Len(NewEntries)]
    /\ wbatch' = [wbatch EXCEPT ![w] = NewEntries]
    /\ wstate' = [wstate EXCEPT ![w] = "process"]
    /\ UNCHANGED <<envVars, prefVars, sessVars, storeVars, finHist>>
    /\ UNCHANGED <<stream, groupCreated, ctl, kills, upserts, orphaned>>

\* A process_job that returns True when embed_query or the upsert raised.
worker_process_job_TrueOnFailure(w) ==
    /\ wstate[w] = "process"
    /\ LET e == Head(wbatch[w])
           job == stream[e]
       IN  IF job.created_at # "float"
           THEN /\ wstate' = [wstate EXCEPT ![w] = "read"]
                /\ wbatch' = [wbatch EXCEPT ![w] = <<>>]
                /\ UNCHANGED <<points, upserts>>
           ELSE IF job.content = <<>> \/ ~(embedUp /\ qdrantUp)
           THEN /\ wstate' = [wstate EXCEPT ![w] = "ack"]
                /\ UNCHANGED <<points, upserts, wbatch>>
           ELSE /\ points' = Append(points, Point(job.user_id, job.session_id, job.content,
                                                   "embedding_worker"))
                /\ upserts' = [upserts EXCEPT ![e] = @ + 1]
                /\ wstate' = [wstate EXCEPT ![w] = "ack"]
                /\ UNCHANGED wbatch
    /\ UNCHANGED <<envVars, prefVars, sessVars, convDocs, queueVars, finHist>>
    /\ UNCHANGED <<ctl, kills, orphaned>>

\* process_job(embedder, qdrant, collection, fields): float(created_at) comes
\* first and is outside the try, so a created_at that is no number raises out
\* of process_job into the "Loop error" handler of run_worker, which sleeps and
\* reads again: the entry and the rest of the batch are left unacked. Else True
\* without a point for an empty content, True after embed_query and upsert,
\* False when either raises (the entry is left unacked).
worker_process_job(w) ==
    /\ wstate[w] = "process"
    /\ LET e == Head(wbatch[w])
           job == stream[e]
       IN  IF job.created_at # "float"
           THEN /\ wstate' = [wstate EXCEPT ![w] = "read"]
                /\ wbatch' = [wbatch EXCEPT ![w] = <<>>]
                /\ UNCHANGED <<points, upserts>>
           ELSE IF job.content = <<>>
           THEN /\ wstate' = [wstate EXCEPT ![w] = "ack"]
                /\ UNCHANGED <<points, upserts, wbatch>>
           ELSE IF embedUp /\ qdrantUp
           THEN /\ points' = Append(points, Point(job.user_id, job.session_id, job.content,
                                                   "embedding_worker"))
                /\ upserts' = [upserts EXCEPT ![e] = @ + 1]
                /\ wstate' = [wstate EXCEPT ![w] = "ack"]
                /\ UNCHANGED wbatch
           ELSE /\ wstate' = [wstate EXCEPT ![w] = AfterEntry(w)]
                /\ wbatch' = [wbatch EXCEPT ![w] = RestOf(w)]
                /\ UNCHANGED <<points, upserts>>
    /\ UNCHANGED <<envVars, prefVars, sessVars, convDocs, queueVars, finHist>>
    /\ UNCHANGED <<ctl, kills, orphaned>>

\* redis.xack(stream_key, group, msg_id); a failing XACK is printed and the entry
\* stays pending
worker_xack(w) ==
    /\ wstate[w] = "ack"
    /\ pending' = IF redisUp THEN Ack(pending, Head(wbatch[w])) ELSE pending
    /\ wbatch' = [wbatch EXCEPT ![w] = RestOf(w)]
    /\ wstate' = [wstate EXCEPT ![w] = AfterEntry(w)]
    /\ UNCHANGED <<envVars, prefVars, sessVars, storeVars, finHist>>
    /\ UNCHANGED <<stream, groupCreated, lastDelivered, ctl, kills, upserts, orphaned>>

\* The worker process is killed (SIGKILL, crash of the host): its batch is gone.
KillWorker(w) ==
    /\ wstate[w] \notin Exited
    /\ kills < MaxKills
    /\ kills' = kills + 1
    /\ orphaned' = IF wstate[w] = "ack" /\ stream[Head(wbatch[w])].content # <<>>
                   THEN orphaned \cup {Head(wbatch[w])} ELSE orphaned
    /\ wstate' = [wstate EXCEPT ![w] = "dead"]
    /\ wbatch' = [wbatch EXCEPT ![w] = <<>>]
    /\ UNCHANGED <<envVars, prefVars, sessVars, storeVars, queueVars, finHist>>
    /\ UNCHANGED <<ctl, upserts>>

\* The worker process is told to stop: SIGINT raises KeyboardInterrupt wherever
\* the loop stands (no except Exception catches it) and the loop breaks;
\* SIGTERM, for which no handler is installed, ends the process. Either way
\* nothing more is done for the batch it holds, which wbatch keeps on record.
StopWorker(w) ==
    /\ wstate[w] \notin Exited
    /\ kills < MaxKills
    /\ kills' = kills + 1
    /\ orphaned' = IF wstate[w] = "ack" /\ stream[Head(wbatch[w])].content # <<>>
                   THEN orphaned \cup {Head(wbatch[w])} ELSE orphaned
    /\ wstate' = [wstate EXCEPT ![w] = "stopped"]
    /\ UNCHANGED <<envVars, prefVars, sessVars, storeVars, queueVars, finHist>>
    /\ UNCHANGED <<ctl, wbatch, upserts>>

\* XADD key * fields by any producer of the stream
xadd(job) ==
    /\ redisUp
    /\ Len(stream) < MaxJobs
    /\ stream' = Append(stream, job)
    /\ UNCHANGED <<envVars, prefVars, sessVars, storeVars, workerVars, finHist>>
    /\ UNCHANGED <<groupCreated, lastDelivered, pending>>

\* A pending entry has been idle for longer than the controller's stale_ms.
PendingGoesStale(e) ==
    /\ e \in DOMAIN pending
    /\ ~pending[e].stale
    /\ pending' = [pending EXCEPT ![e].stale = TRUE]
    /\ UNCHANGED <<envVars, prefVars, sessVars, storeVars, workerVars, finHist>>
    /\ UNCHANGED <<stream, groupCreated, lastDelivered>>

----------------------------------------------------------------------------
(* Preference worker: consumer of the stream preference_queue *)

PrefClients == {"c1"}
PrefWorkers == {"pw"}

\* extract_prefs_regex(messages) on the texts of the model: "budget 2000"
\* matches (budget|under|around)\s*\$?\s*([0-9]{2,6}), no other text matches
\* anything; extract_prefs_llm gives {} (ENABLE_PREF_LLM_EXTRACTION off).
ExtractPrefsRegex(msgs) ==
    IF \E i \in 1..Len(msgs) : msgs[i].content = "budget 2000"
    THEN {<<"budget", 2000>>} ELSE {}

\* XADD preference_queue * user_id .. session_id .. ; a field that is missing
\* reads as "" here.
xadd_pref(job) ==
    /\ redisUp
    /\ Len(prefq.stream) < MaxJobs
    /\ prefq' = [prefq EXCEPT !.stream = Append(@, job)]
    /\ UNCHANGED <<prefDocs, prefCache, pc, call, writes, okSets, envVars>>
    /\ UNCHANGED <<sessVars, pipeVars>>

\* r.xreadgroup(group, consumer, {STREAM_KEY: ">"}, count=10): the entries never
\* delivered to the group become pending; nothing new, or an error, and the
\* loop comes back here.
pw_xreadgroup(w) ==
    /\ pc[w] = "pw_read"
    /\ redisUp
    /\ prefq.lastDelivered < Len(prefq.stream)
    /\ LET hi == IF Len(prefq.stream) < prefq.lastDelivered + Batch
                 THEN Len(prefq.stream) ELSE prefq.lastDelivered + Batch
           ids == IdRange(prefq.lastDelivered + 1, hi)
       IN  /\ prefq' = [prefq EXCEPT !.lastDelivered = hi,
                                     !.pending = @ \cup {ids[i] : i \in 1..Len(ids)}]
           /\ call' = [call EXCEPT ![w] = [NoCall EXCEPT !.op = "job", !.batch = ids]]
    /\ pc' = [pc EXCEPT ![w] = "pw_job"]
    /\ UNCHANGED <<prefDocs, prefCache, writes, okSets, envVars>>
    /\ UNCHANGED <<sessVars, pipeVars>>

\* Where the loop goes after an entry that is not acked.
AfterPrefEntry(w) == IF Tail(call[w].batch) = <<>> THEN "pw_read" ELSE "pw_job"

\* process_job up to current = pref_store.get_preferences(user_id): True (ack)
\* for a job without user_id or session_id, False for a database that is
\* unavailable or a find_one that raises, True for a conversation that is
\* absent or gives no preference.
pw_process_job(w) ==
    /\ pc[w] = "pw_job"
    /\ LET job == prefq.stream[Head(call[w].batch)]
           frame == [NoCall EXCEPT !.op = "job", !.batch = call[w].batch]
       IN  IF job.user_id = "" \/ job.session_id = ""
           THEN /\ pc' = [pc EXCEPT ![w] = "pw_ack"]
                /\ call' = [call EXCEPT ![w] = frame]
           ELSE IF ~mongoUp
           THEN /\ pc' = [pc EXCEPT ![w] = AfterPrefEntry(w)]
                /\ call' = [call EXCEPT ![w] = [frame EXCEPT !.batch = Tail(@)]]
           ELSE IF \/ job.session_id \notin DOMAIN convDocs
                   \/ ExtractPrefsRegex(convDocs[job.session_id].messages) = {}
           THEN /\ pc' = [pc EXCEPT ![w] = "pw_ack"]
                /\ call' = [call EXCEPT ![w] = [frame EXCEPT !.dbUp = TRUE]]
           ELSE /\ pc' = [pc EXCEPT ![w] = "get_cache"]
                /\ call' = [call EXCEPT ![w] =
                      [frame EXCEPT !.user = job.user_id, !.dbUp = TRUE,
                           !.extracted = ExtractPrefsRegex(convDocs[job.session_id].messages)]]
    /\ UNCHANGED <<prefDocs, prefCache, writes, okSets, prefq, envVars>>
    /\ UNCHANGED <<sessVars, pipeVars>>

\* process_job returned True, also after a set_preferences that returned False:
\* r.xack(STREAM_KEY, group, msg_id); a failing XACK is passed over and the
\* entry stays pending.
pw_xack(w) ==
    /\ pc[w] \in {"pw_ack", "ret"}
    /\ prefq' = IF redisUp THEN [prefq EXCEPT !.pending = @ \ {Head(call[w].batch)}]
                ELSE prefq
    /\ pc' = [pc EXCEPT ![w] = AfterPrefEntry(w)]
    /\ call' = [call EXCEPT ![w].batch = Tail(@)]
    /\ UNCHANGED <<prefDocs, prefCache, writes, okSets, envVars>>
    /\ UNCHANGED <<sessVars, pipeVars>>

----------------------------------------------------------------------------
(* Backends come and go *)

MongoFlip ==
    /\ mongoUp' = ~mongoUp
    /\ UNCHANGED <<redisUp, qdrantUp, embedUp, cfgVars, now, prefVars, sessVars, pipeVars>>

RedisFlip ==
    /\ redisUp' = ~redisUp
    /\ UNCHANGED <<mongoUp, qdrantUp, embedUp, cfgVars, now, prefVars, sessVars, pipeVars>>

QdrantFlip ==
    /\ qdrantUp' = ~qdrantUp
    /\ UNCHANGED <<mongoUp, redisUp, embedUp, cfgVars, now, prefVars, sessVars, pipeVars>>

EmbedFlip ==
    /\ embedUp' = ~embedUp
    /\ UNCHANGED <<mongoUp, redisUp, qdrantUp, cfgVars, now, prefVars, sessVars, pipeVars>>

----------------------------------------------------------------------------
(* The preference store under concurrent callers *)

InitPipeVars ==
    /\ convDocs = <<>>
    /\ points = <<>>
    /\ stream = <<>>
    /\ groupCreated = FALSE
    /\ lastDelivered = 0
    /\ pending = <<>>
    /\ ctl = "off"
    /\ wstate = [w \in Workers |-> "dead"]
    /\ wbatch = [w \in Workers |-> <<>>]
    /\ kills = 0
    /\ upserts = [e \in 1..MaxJobs |-> 0]
    /\ finalizedOk = {}
    /\ finLog = [s \in Sessions |-> <<>>]
    /\ orphaned = {}

\* Every backend answers; the clock stands at its cap (only SpecSave lets it run).
InitBackends ==
    /\ now = MaxTime
    /\ mongoUp = TRUE
    /\ redisUp = TRUE
    /\ qdrantUp = TRUE
    /\ embedUp = TRUE

InitPref ==
    /\ InitBackends
    /\ rejectsConflicts \in BOOLEAN
    /\ cacheEnabled \in BOOLEAN
    /\ asyncEnabled = TRUE
    /\ InitPipeVars
    /\ prefq = NoPrefQueue
    /\ prefDocs = <<>>
    /\ prefCache = <<>>
    /\ pc = [c \in Callers |-> "idle"]
    /\ call = [c \in Callers |-> NoCall]
    /\ writes = [u \in PrefUsers |-> 0]
    /\ okSets = [u \in PrefUsers |-> 0]
    /\ InitSessVars

NextPref ==
    \/ \E c \in Callers, u \in PrefUsers, p \in PrefInputs : CallSetBlind(c, u, p)
    \/ \E c \in Callers, u \in PrefUsers, p \in PrefInputs, e \in 1..MaxVersion :
          CallSetVersioned(c, u, p, e)
    \/ \E c \in Callers : set_preferences_update_one(c)
    \/ \E c \in Callers : set_preferences_invalidate(c)
    \/ \E c \in Callers, u \in PrefUsers : CallGet(c, u)
    \/ \E c \in Callers, u \in PrefUsers, v \in BudgetVals : CallUpdate(c, u, "budget", v)
    \/ \E c \in Callers : get_preferences_cache(c)
    \/ \E c \in Callers : get_preferences_find_one(c)
    \/ \E c \in Callers : get_preferences_warm(c)
    \/ \E u \in PrefUsers : PrefCacheExpire(u)
    \/ \E c \in Callers : Return(c)
    \/ MongoFlip
    \/ RedisFlip

SpecPref == InitPref /\ [][NextPref]_vars

----------------------------------------------------------------------------
(* The intra-session store under concurrent clients and the passing of time *)

InitPrefVars ==
    /\ prefq = NoPrefQueue
    /\ prefDocs = <<>>
    /\ prefCache = <<>>
    /\ pc = [c \in Callers |-> "idle"]
    /\ call = [c \in Callers |-> NoCall]
    /\ writes = [u \in PrefUsers |-> 0]
    /\ okSets = [u \in PrefUsers |-> 0]

InitSess ==
    /\ InitBackends
    /\ rejectsConflicts = TRUE
    /\ cacheEnabled = TRUE
    /\ asyncEnabled = TRUE
    /\ InitPipeVars
    /\ InitPrefVars
    /\ InitSessVars

NextSess ==
    \/ \E c \in Clients, s \in OneSession, m \in Messages : CallAppend(c, s, m)
    \/ \E c \in Clients : save_message_rpush(c)
    \/ \E c \in Clients : save_message_expire(c)
    \/ \E c \in Clients, s \in OneSession, limit \in 0..MaxLog : get_messages(c, s, limit)
    \/ \E c \in Clients, s \in OneSession : clear_session(c, s)
    \/ \E c \in Clients, s \in OneSession : refresh_ttl(c, s)
    \/ \E c \in Clients : SReturn(c)
    \/ Tick
    \/ RedisFlip

SpecSess == InitSess /\ [][NextSess]_vars

----------------------------------------------------------------------------
(* The pipeline: a client that appends and finalizes, a worker, the controller *)

PipeClients == {"p1"}
PipeUsers == {"u1"}
PipeMessages == {[type |-> "human", content |-> "a"]}

\* Every backend answers.
Healthy == mongoUp /\ redisUp /\ qdrantUp /\ embedUp

\* One backend is out at a time: a backend fails only while all of them answer.
SoleFault(up) == Healthy \/ ~up

InitPipe ==
    /\ InitBackends
    /\ rejectsConflicts \in BOOLEAN
    /\ cacheEnabled = TRUE
    /\ asyncEnabled \in BOOLEAN
    /\ InitPrefVars
    /\ InitSessVars
    /\ InitPipeVars

NextPipe ==
    \/ \E c \in PipeClients, s \in OneSession, m \in PipeMessages : CallAppend(c, s, m)
    \/ \E c \in PipeClients : save_message_rpush(c)
    \/ \E c \in PipeClients : save_message_expire(c)
    \/ \E c \in PipeClients, u \in PipeUsers, s \in OneSession : CallFinalize(c, u, s)
    \/ \E c \in PipeClients : finalize_get(c)
    \/ \E c \in PipeClients : finalize_save(c)
    \/ \E c \in PipeClients : finalize_queue(c)
    \/ \E c \in PipeClients : finalize_clear(c)
    \/ \E c \in PipeClients : SReturn(c)
    \/ run_local_start
    \/ run_local_pass
    \/ \E w \in Workers : worker_start(w)
    \/ \E w \in Workers : worker_xreadgroup(w)
    \/ \E w \in Workers : worker_process_job(w)
    \/ \E w \in Workers : worker_xack(w)
    \/ \E w \in Workers : KillWorker(w)
    \/ \E e \in 1..MaxJobs : PendingGoesStale(e)
    \/ SoleFault(mongoUp) /\ MongoFlip
    \/ SoleFault(redisUp) /\ RedisFlip
    \/ SoleFault(qdrantUp) /\ QdrantFlip
    \/ SoleFault(embedUp) /\ EmbedFlip

SpecPipe == InitPipe /\ [][NextPipe]_vars

\* The controller loops and the worker process runs for as long as it lives.
PipeFairness ==
    /\ WF_vars(run_local_start)
    /\ WF_vars(run_local_pass)
    /\ \A w \in Workers :
          /\ WF_vars(worker_start(w))
          /\ WF_vars(worker_xreadgroup(w))
          /\ WF_vars(worker_process_job(w))
          /\ WF_vars(worker_xack(w))

SpecPipeFair == SpecPipe /\ PipeFairness

----------------------------------------------------------------------------
(* Finalisation: two clients that append to and finalize two sessions *)

InitFin ==
    /\ InitBackends
    /\ rejectsConflicts \in BOOLEAN
    /\ cacheEnabled = TRUE
    /\ asyncEnabled \in BOOLEAN
    /\ InitPrefVars
    /\ InitSessVars
    /\ InitPipeVars

\* The sessions a client works on: both clients meet on s1, one has s2 to itself.
SessionsOf(c) == IF c = "p1" THEN {"s1"} ELSE Sessions

\* The conversation every session holds: a question, then its answer, in turn.
Script == <<[type |-> "human", content |-> "a"], [type |-> "ai", content |-> "b"]>>
NextInScript(s) ==
    Script[((Len(sessLog[s]) + Cardinality(PushesInFlight(s))) % Len(Script)) + 1]

NextFin ==
    \/ \E c \in Clients, s \in Sessions : s \in SessionsOf(c) /\ CallAppend(c, s, NextInScript(s))
    \/ \E c \in Clients : save_message_rpush(c)
    \/ \E c \in Clients : save_message_expire(c)
    \/ \E c \in Clients, u \in PipeUsers, s \in Sessions :
          s \in SessionsOf(c) /\ CallFinalize(c, u, s)
    \/ \E c \in Clients : finalize_get(c)
    \/ \E c \in Clients : finalize_save(c)
    \/ \E c \in Clients : finalize_queue(c)
    \/ \E c \in Clients : finalize_clear(c)
    \/ \E c \in Clients : SReturn(c)

SpecFin == InitFin /\ [][NextFin]_vars

----------------------------------------------------------------------------
(* Degradation: the public operations of the manager before and during an    *)
(* outage of Redis, MongoDB and Qdrant together                              *)

DownClients == {"p1"}
DownCallers == {"c1"}
ListLimits == {0, 1}

AllDown == ~mongoUp /\ ~redisUp /\ ~qdrantUp

\* Redis, MongoDB and Qdrant become unreachable together, between two operations,
\* and stay so.
Outage ==
    /\ mongoUp /\ redisUp /\ qdrantUp
    /\ \A c \in Callers : pc[c] = "idle"
    /\ \A c \in Clients : spc[c] = "idle"
    /\ mongoUp' = FALSE
    /\ redisUp' = FALSE
    /\ qdrantUp' = FALSE
    /\ UNCHANGED <<embedUp, cfgVars, now, prefVars, sessVars, pipeVars>>

InitDown ==
    /\ InitBackends
    /\ rejectsConflicts \in BOOLEAN
    /\ cacheEnabled = TRUE
    /\ asyncEnabled \in BOOLEAN
    /\ InitPrefVars
    /\ InitSessVars
    /\ InitPipeVars

NextDown ==
    \/ \E c \in DownClients, s \in OneSession : CallAppend(c, s, NextInScript(s))
    \/ \E c \in DownClients : save_message_rpush(c)
    \/ \E c \in DownClients : save_message_expire(c)
    \/ \E c \in DownClients, s \in OneSession, limit \in ListLimits : get_messages(c, s, limit)
    \/ \E c \in DownClients, s \in OneSession : refresh_ttl(c, s)
    \/ \E c \in DownClients, u \in PipeUsers, s \in OneSession : CallFinalize(c, u, s)
    \/ \E c \in DownClients : finalize_get(c)
    \/ \E c \in DownClients : finalize_save(c)
    \/ \E c \in DownClients : finalize_queue(c)
    \/ \E c \in DownClients : finalize_clear(c)
    \/ \E c \in DownClients, u \in PipeUsers, q \in Queries, minSim \in SimLevels :
          retrieve_similar(c, u, q, MaxK, minSim)
    \/ \E c \in DownClients : SReturn(c)
    \/ \E c \in DownCallers, u \in PrefUsers : CallGet(c, u)
    \/ \E c \in DownCallers, u \in PrefUsers, v \in BudgetVals : CallUpdate(c, u, "budget", v)
    \/ \E c \in DownCallers : get_preferences_cache(c)
    \/ \E c \in DownCallers : get_preferences_find_one(c)
    \/ \E c \in DownCallers : get_preferences_warm(c)
    \/ \E c \in DownCallers : set_preferences_update_one(c)
    \/ \E c \in DownCallers : set_preferences_invalidate(c)
    \/ \E c \in DownCallers : Return(c)
    \/ Outage

SpecDown == InitDown /\ [][NextDown]_vars

----------------------------------------------------------------------------
(* Finalisation and re-finalisation of one session under a running clock *)

InitSave ==
    /\ now = 0
    /\ mongoUp = TRUE
    /\ redisUp = TRUE
    /\ qdrantUp = TRUE
    /\ embedUp = TRUE
    /\ rejectsConflicts \in BOOLEAN
    /\ cacheEnabled = TRUE
    /\ asyncEnabled \in BOOLEAN
    /\ InitPrefVars
    /\ InitSessVars
    /\ InitPipeVars

NextSave ==
    \/ \E c \in PipeClients, s \in OneSession : CallAppend(c, s, NextInScript(s))
    \/ \E c \in PipeClients : save_message_rpush(c)
    \/ \E c \in PipeClients : save_message_expire(c)
    \/ \E c \in PipeClients, u \in PipeUsers, s \in OneSession : CallFinalize(c, u, s)
    \/ \E c \in PipeClients : finalize_get(c)
    \/ \E c \in PipeClients : finalize_save(c)
    \/ \E c \in PipeClients : finalize_queue(c)
    \/ \E c \in PipeClients : finalize_clear(c)
    \/ \E c \in PipeClients : SReturn(c)
    \/ MongoFlip

SpecSave == InitSave /\ [][NextSave]_vars

----------------------------------------------------------------------------
(* Retrieval over the points and conversations of two users *)

Contents == {<<>>, <<<<"a", "b">>>>, <<<<"b", "a">>>>}
ConvInputs == {<<>>,
               <<[type |-> "human", content |-> "a"]>>,
               <<[type |-> "human", content |-> "a"], [type |-> "ai", content |-> "b"]>>}

InitRetr ==
    /\ InitBackends
    /\ rejectsConflicts = FALSE
    /\ cacheEnabled = TRUE
    /\ asyncEnabled = FALSE
    /\ InitPrefVars
    /\ InitSessVars
    /\ InitPipeVars

NextRetr ==
    \/ \E c \in PipeClients, u \in Users, s \in ConvSessions, t \in Contents :
          queue_embedding_job(c, u, s, t)
    \/ \E c \in PipeClients, u \in Users, s \in ConvSessions, msgs \in ConvInputs :
          save_conversation(c, u, s, msgs)
    \/ \E c \in PipeClients, u \in Users, q \in Queries, k \in 1..MaxK, minSim \in SimLevels :
          retrieve_similar(c, u, q, k, minSim)
    \/ \E c \in PipeClients : SReturn(c)
    \/ MongoFlip
    \/ QdrantFlip
    \/ EmbedFlip

SpecRetr == InitRetr /\ [][NextRetr]_vars

----------------------------------------------------------------------------
(* queue_embedding_job with async embedding on or off, as Redis, Qdrant and   *)
(* the embedding provider come and go                                         *)

InitQueue ==
    /\ InitBackends
    /\ rejectsConflicts = TRUE
    /\ cacheEnabled = TRUE
    /\ asyncEnabled \in BOOLEAN
    /\ InitPrefVars
    /\ InitSessVars
    /\ InitPipeVars

NextQueue ==
    \/ \E c \in PipeClients, u \in Users, s \in ConvSessions, t \in Contents :
          queue_embedding_job(c, u, s, t)
    \/ \E c \in PipeClients : SReturn(c)
    \/ RedisFlip
    \/ QdrantFlip
    \/ EmbedFlip

SpecQueue == InitQueue /\ [][NextQueue]_vars

----------------------------------------------------------------------------
(* The controller and its embedding workers on a stream that also carries     *)
(* malformed entries, with kills, stops and backends that come and go         *)

\* --workers 2
Pool == {"worker-1", "worker-2"}

\* The entries producers put on the stream: a job as queue_embedding_job makes
\* it, one without content, and one whose created_at is not a number.
WorkJobs ==
    {Job("u1", "s1", <<<<"a", "b">>>>),
     Job("u1", "s1", <<>>),
     [Job("u1", "s1", <<<<"a", "b">>>>) EXCEPT !.created_at = "text"]}

InitWork ==
    /\ InitBackends
    /\ rejectsConflicts = TRUE
    /\ cacheEnabled = TRUE
    /\ asyncEnabled = TRUE
    /\ InitPrefVars
    /\ InitSessVars
    /\ convDocs = <<>>
    /\ points = <<>>
    /\ stream = <<>>
    /\ groupCreated = FALSE
    /\ lastDelivered = 0
    /\ pending = <<>>
    /\ ctl = "off"
    /\ wstate = [w \in Pool |-> "dead"]
    /\ wbatch = [w \in Pool |-> <<>>]
    /\ kills = 0
    /\ upserts = [e \in 1..MaxJobs |-> 0]
    /\ finalizedOk = {}
    /\ finLog = [s \in Sessions |-> <<>>]
    /\ orphaned = {}

NextWork ==
    \/ \E j \in WorkJobs : xadd(j)
    \/ run_local_start
    \/ run_local_pass
    \/ run_local_stop
    \/ \E w \in Pool : worker_start(w)
    \/ \E w \in Pool : worker_xreadgroup(w)
    \/ \E w \in Pool : worker_process_job(w)
    \/ \E w \in Pool : worker_xack(w)
    \/ \E w \in Pool : KillWorker(w)
    \/ \E w \in Pool : StopWorker(w)
    \/ \E e \in 1..MaxJobs : PendingGoesStale(e)
    \/ SoleFault(redisUp) /\ RedisFlip
    \/ SoleFault(qdrantUp) /\ QdrantFlip
    \/ SoleFault(embedUp) /\ EmbedFlip

SpecWork == InitWork /\ [][NextWork]_vars

\* The controller loops and a worker process runs for as long as it lives.
WorkFairness ==
    /\ WF_vars(run_local_start)
    /\ WF_vars(run_local_pass)
    /\ \A w \in Pool :
          /\ WF_vars(worker_start(w))
          /\ WF_vars(worker_xreadgroup(w))
          /\ WF_vars(worker_process_job(w))
          /\ WF_vars(worker_xack(w))

SpecWorkFair == SpecWork /\ WorkFairness

----------------------------------------------------------------------------
(* The preference worker beside a client that writes preferences, on a        *)
(* stream that also carries a job of a session never saved and a job without  *)
(* user_id                                                                    *)

PrefJobs ==
    {[user_id |-> "u1", session_id |-> "s1"],
     [user_id |-> "u1", session_id |-> "s2"],
     [user_id |-> "", session_id |-> "s1"]}

InitPrefW ==
    /\ InitBackends
    /\ rejectsConflicts \in BOOLEAN
    /\ cacheEnabled \in BOOLEAN
    /\ asyncEnabled = TRUE
    /\ InitSessVars
    /\ convDocs = ("s1" :> ConvDoc("u1", "s1",
                                   <<[type |-> "human", content |-> "budget 2000"]>>, 0, 0))
    /\ points = <<>>
    /\ stream = <<>>
    /\ groupCreated = FALSE
    /\ lastDelivered = 0
    /\ pending = <<>>
    /\ ctl = "off"
    /\ wstate = [w \in Workers |-> "dead"]
    /\ wbatch = [w \in Workers |-> <<>>]
    /\ kills = 0
    /\ upserts = [e \in 1..MaxJobs |-> 0]
    /\ finalizedOk = {}
    /\ finLog = [s \in Sessions |-> <<>>]
    /\ orphaned = {}
    /\ prefq = NoPrefQueue
    /\ prefDocs = <<>>
    /\ prefCache = <<>>
    /\ pc = [c \in PrefClients \cup PrefWorkers |->
                IF c \in PrefWorkers THEN "pw_read" ELSE "idle"]
    /\ call = [c \in PrefClients \cup PrefWorkers |-> NoCall]
    /\ writes = [u \in PrefUsers |-> 0]
    /\ okSets = [u \in PrefUsers |-> 0]

NextPrefW ==
    \/ \E j \in PrefJobs : xadd_pref(j)
    \/ \E w \in PrefWorkers : pw_xreadgroup(w)
    \/ \E w \in PrefWorkers : pw_process_job(w)
    \/ \E w \in PrefWorkers : pw_xack(w)
    \/ \E c \in PrefClients, u \in PrefUsers, p \in PrefInputs : CallSetBlind(c, u, p)
    \/ \E c \in PrefClients, u \in PrefUsers, p \in PrefInputs, e \in 1..MaxVersion :
          CallSetVersioned(c, u, p, e)
    \/ \E c \in PrefClients \cup PrefWorkers : set_preferences_update_one(c)
    \/ \E c \in PrefClients \cup PrefWorkers : set_preferences_invalidate(c)
    \/ \E c \in PrefWorkers : get_preferences_cache(c)
    \/ \E c \in PrefWorkers : get_preferences_find_one(c)
    \/ \E c \in PrefWorkers : get_preferences_warm(c)
    \/ \E u \in PrefUsers : PrefCacheExpire(u)
    \/ \E c \in PrefClients : Return(c)
    \/ MongoFlip
    \/ RedisFlip

SpecPrefW == InitPrefW /\ [][NextPrefW]_vars

\* Two preference workers on the same group, python scripts/pref_worker.py
\* started twice with different --consumer names, and no other writer.
PrefWorkerPair == {"pw-1", "pw-2"}

InitPrefW2 ==
    /\ InitBackends
    /\ rejectsConflicts \in BOOLEAN
    /\ cacheEnabled \in BOOLEAN
    /\ asyncEnabled = TRUE
    /\ InitSessVars
    /\ convDocs = ("s1" :> ConvDoc("u1", "s1",
                                   <<[type |-> "human", content |-> "budget 2000"]>>, 0, 0))
    /\ points = <<>>
    /\ stream = <<>>
    /\ groupCreated = FALSE
    /\ lastDelivered = 0
    /\ pending = <<>>
    /\ ctl = "off"
    /\ wstate = [w \in Workers |-> "dead"]
    /\ wbatch = [w \in Workers |-> <<>>]
    /\ kills = 0
    /\ upserts = [e \in 1..MaxJobs |-> 0]
    /\ finalizedOk = {}
    /\ finLog = [s \in Sessions |-> <<>>]
    /\ orphaned = {}
    /\ prefq = NoPrefQueue
    /\ prefDocs = <<>>
    /\ prefCache = <<>>
    /\ pc = [c \in PrefWorkerPair |-> "pw_read"]
    /\ call = [c \in PrefWorkerPair |-> NoCall]
    /\ writes = [u \in PrefUsers |-> 0]
    /\ okSets = [u \in PrefUsers |-> 0]

NextPrefW2 ==
    \/ \E j \in PrefJobs : xadd_pref(j)
    \/ \E w \in PrefWorkerPair : pw_xreadgroup(w)
    \/ \E w \in PrefWorkerPair : pw_process_job(w)
    \/ \E w \in PrefWorkerPair : pw_xack(w)
    \/ \E c \in PrefWorkerPair : set_preferences_update_one(c)
    \/ \E c \in PrefWorkerPair : set_preferences_invalidate(c)
    \/ \E c \in PrefWorkerPair : get_preferences_cache(c)
    \/ \E c \in PrefWorkerPair : get_preferences_find_one(c)
    \/ \E c \in PrefWorkerPair : get_preferences_warm(c)
    \/ \E u \in PrefUsers : PrefCacheExpire(u)

SpecPrefW2 == InitPrefW2 /\ [][NextPrefW2]_vars

----------------------------------------------------------------------------
(* Claims about finalisation, the embedding pipeline and retrieval *)

\* A finished finalize_session call of client c that read a non-empty log and whose
\* save_conversation failed.
FinalizeSaveFailed(c) ==
    /\ spc[c] = "ret"
    /\ scall[c].op = "finalize"
    /\ scall[c].msgs # <<>>
    /\ ~scall[c].success

\* C1: when the log of s is non-empty and saving the conversation fails,
\* finalize_session returns false and has deleted nothing from the log of s.
C1_FailedSaveKeepsLog ==
    \A c \in Clients : FinalizeSaveFailed(c) => (~scall[c].result /\ ~scall[c].cleared)

\* C6: an entry whose point was upserted by a worker killed before the XACK is,
\* once the backends answer for good and a worker runs again, processed a second
\* time: a second point is upserted for it.
C6_KilledEntryRedelivered ==
    (<>[]Healthy) => \A e \in 1..MaxJobs : (e \in orphaned) ~> (upserts[e] >= 2)

HasPoint(u, s) ==
    \E i \in 1..Len(points) : points[i].user_id = u /\ points[i].session_id = s

\* C7: with async embedding on, after finalize_session(u, s) returned true on a
\* non-empty log and with backends that answer for good, the collection eventually
\* holds a point of user u and session s.
C7_EventuallyEmbedded ==
    (<>[]Healthy) =>
        \A u \in PipeUsers, s \in Sessions, n \in 1..MaxLog :
            (asyncEnabled /\ <<u, s, n>> \in finalizedOk) ~> HasPoint(u, s)

\* The same for the sessions that hold a question and its answer, whose embedding
\* summary is not empty.
EventuallyEmbeddedWhenPaired ==
    (<>[]Healthy) =>
        \A u \in PipeUsers, s \in Sessions, n \in 2..MaxLog :
            (asyncEnabled /\ <<u, s, n>> \in finalizedOk) ~> HasPoint(u, s)

\* The session s was finalized twice in a row: two calls returned since a message
\* was last pushed onto its log, the second started after the first had returned,
\* the first read a non-empty log, and every backend answered both.
FinalizedTwice(s) ==
    /\ Len(finLog[s]) >= 2
    /\ finLog[s][2].after >= 1
    /\ finLog[s][1].n >= 1
    /\ finLog[s][1].clean /\ finLog[s][2].clean

\* Two one-or-no-document views of a session hold the same conversation.
SameConversation(d1, d2) ==
    /\ Len(d1) = 1 /\ Len(d2) = 1
    /\ d1[1].session_id = d2[1].session_id
    /\ d1[1].messages = d2[1].messages

\* C11: finalize_session(u, s) called twice in a row, no append in between: both
\* calls return true, the conversation of s after the second call has the
\* session_id and messages it had after the first, and the two calls made at most
\* two embedding jobs or points.
C11_FinalizeTwice ==
    \A s \in Sessions :
        FinalizedTwice(s) =>
            /\ finLog[s][1].result /\ finLog[s][2].result
            /\ SameConversation(finLog[s][1].doc, finLog[s][2].doc)
            /\ finLog[s][1].made + finLog[s][2].made <= 2

\* The first n messages a session gets when one client alone appends to it.
Scripted(n) == [i \in 1..n |-> Script[((i - 1) % Len(Script)) + 1]]

\* Client c is the only one that works on the session of its call.
AloneOnSession(c) == \A d \in Clients \ {c} : scall[c].sid \notin SessionsOf(d)

\* Client c has finalize_session back with True, for a log of at least one message,
\* async embedding on and every backend up.
FinalizedWithSuccess(c) ==
    /\ spc[c] = "ret" /\ scall[c].op = "finalize"
    /\ scall[c].result /\ Len(scall[c].msgs) >= 1
    /\ asyncEnabled /\ scall[c].clean
    /\ AloneOnSession(c)

\* C13: when finalize_session(u, s) on a log of n >= 1 messages returns True, all
\* backends up and async embedding on, the conversation of s is stored with
\* user_id u and the n messages in the order of their appends, the stream has
\* exactly one more entry for (u, s) than at the call, and the key of s is gone.
C13_FinalizePostState ==
    \A c \in Clients : FinalizedWithSuccess(c) =>
        LET s == scall[c].sid
            u == scall[c].user
        IN  /\ s \in DOMAIN convDocs
            /\ convDocs[s].user_id = u
            /\ convDocs[s].messages = scall[c].msgs
            /\ scall[c].msgs = Scripted(Len(scall[c].msgs))
            /\ JobsFor(u, s) = scall[c].jobs0 + 1
            /\ sessLog[s] = <<>>

C13_Witness ==
    \E c \in Clients : FinalizedWithSuccess(c) /\ Len(scall[c].msgs) = 2

\* Client c reads the log of its finalize call in this step, and finds none.
ReadsEmptyLog(c) ==
    /\ spc[c] = "fin_get" /\ spc'[c] # "fin_get"
    /\ redisUp /\ sessLog[scall[c].sid] = <<>>

\* C14: finalize_session(u, s) on an empty or absent log returns True and changes
\* nothing: no conversation is written or updated, no job queued, no point made.
C14_EmptyFinalize ==
    [][\A c \in Clients : ReadsEmptyLog(c) =>
          /\ spc'[c] = "ret" /\ scall'[c].result
          /\ UNCHANGED <<convDocs, points, stream, sessLog, sessTTL, sessExpires>>]_vars

\* A finalize call on an empty log is back while a conversation of the session,
\* saved earlier, is in the collection.
C14_Witness ==
    \E c \in Clients :
        /\ spc[c] = "ret" /\ scall[c].op = "finalize"
        /\ scall[c].msgs = <<>> /\ scall[c].result
        /\ scall[c].sid \in DOMAIN convDocs

\* Two finalize calls on s have returned, no append since, and the second to
\* return began before the first had returned.
FinalizedConcurrently(s) ==
    /\ Len(finLog[s]) >= 2
    /\ finLog[s][2].after < 1
    /\ finLog[s][1].clean /\ finLog[s][2].clean

\* The call of record r wrote the conversation.
Wrote(r) == r.result /\ r.n >= 1

\* The messages of the last save_conversation on the session of a call that
\* wrote: its own, or those that a concurrent call saved over them.
LastWritten(r) == IF r.superseded THEN r.over ELSE r.msgs

\* The messages saved last when two concurrent calls have returned.
LastWriter(r1, r2) == IF Wrote(r2) THEN LastWritten(r2) ELSE LastWritten(r1)

\* Two concurrent calls on s, one of which wrote: one conversation, the last
\* writer's.
SameSessionOutcome(s) ==
    LET r1 == finLog[s][1]
        r2 == finLog[s][2]
        w  == LastWriter(r1, r2)
    IN  /\ Len(r2.doc) = 1
        /\ r2.doc[1].session_id = s
        /\ r2.doc[1].user_id = r2.user
        /\ r2.doc[1].messages = w

\* The jobs of a session (stream entries and points) grow by one at a time, and only
\* in the queueing step of a finalize call on that session, which a call takes at
\* most once: two calls make at most two jobs.
OneJobPerCall ==
    \A s \in Sessions :
        /\ MadeFor(s)' <= MadeFor(s) + 1
        /\ MadeFor(s)' > MadeFor(s) =>
              \E c \in Clients : /\ spc[c] = "fin_queue" /\ spc'[c] = "fin_clear"
                                  /\ scall[c].sid = s

\* A step of a finalize call on one session leaves the conversation, the jobs and
\* the log of every other session as they are.
OtherSessionsUntouched ==
    \A c \in Clients :
        (spc[c] \in {"fin_get", "fin_save", "fin_queue", "fin_clear"} /\ spc'[c] # spc[c]) =>
            \A t \in Sessions \ {scall[c].sid} :
                /\ (t \in DOMAIN convDocs') = (t \in DOMAIN convDocs)
                /\ t \in DOMAIN convDocs => convDocs'[t] = convDocs[t]
                /\ {i \in 1..Len(stream') : stream'[i].session_id = t}
                     = {i \in 1..Len(stream) : stream[i].session_id = t}
                /\ {i \in 1..Len(points') : points'[i].session_id = t}
                     = {i \in 1..Len(points) : points[i].session_id = t}
                /\ sessLog'[t] = sessLog[t]

StampsOrdered ==
    \A s \in DOMAIN convDocs : convDocs[s].updated_at >= convDocs[s].created_at

\* No step changes the created_at of a conversation that exists.
CreatedKept ==
    \A s \in DOMAIN convDocs :
        s \in DOMAIN convDocs' /\ convDocs'[s].created_at = convDocs[s].created_at

\* A step that writes a conversation gives it an updated_at read from the clock
\* during that step.
UpdatedIsNow ==
    \A s \in DOMAIN convDocs' :
        (s \notin DOMAIN convDocs \/ convDocs'[s] # convDocs[s])
            => convDocs'[s].updated_at \in now..now'

\* Every save_conversation that MongoDB is up for writes the conversation.
SaveWrites ==
    \A c \in Clients :
        (spc[c] = "fin_save" /\ spc'[c] # "fin_save" /\ mongoUp)
            => /\ scall[c].sid \in DOMAIN convDocs'
               /\ convDocs'[scall[c].sid].messages = scall[c].msgs

\* C16: created_at is written when the conversation is inserted and kept by every
\* later finalisation of the session; updated_at is the time of the save, on every
\* save; updated_at >= created_at in every reachable state.
C16_Timestamps ==
    /\ []StampsOrdered
    /\ [][CreatedKept /\ UpdatedIsNow /\ SaveWrites]_vars

\* Every conversation is filed under its own session_id.
OnePerSession == \A s \in DOMAIN convDocs : convDocs[s].session_id = s

\* No step removes a conversation.
NeverDeleted == DOMAIN convDocs \subseteq DOMAIN convDocs'

\* A finalize call that finds messages reads them in the order of their pushes.
ReadInOrder ==
    \A c \in Clients :
        (spc[c] = "fin_get" /\ spc'[c] = "fin_save")
            => scall'[c].msgs = HistMsgs(scall[c].sid)

\* A conversation is written only by the save of a finalize call on its
\* session_id, with the messages that call read, in their order.
SavedAsRead ==
    \A s \in DOMAIN convDocs' :
        (s \notin DOMAIN convDocs \/ convDocs'[s] # convDocs[s])
            => \E c \in Clients :
                  /\ spc[c] = "fin_save" /\ spc'[c] # "fin_save"
                  /\ scall[c].sid = s
                  /\ convDocs'[s].messages = scall[c].msgs

\* C17: after any sequence of finalisations there is at most one conversation per
\* session_id, no conversation is ever deleted, and the messages of each
\* conversation are in the order in which they were appended to the log.
C17_ConversationInvariants ==
    /\ []OnePerSession
    /\ [][NeverDeleted /\ ReadInOrder /\ SavedAsRead]_vars

\* Both sessions have a conversation, one of them of two different messages.
C17_Witness ==
    /\ DOMAIN convDocs = Sessions
    /\ \E s \in Sessions :
          /\ Len(convDocs[s].messages) = 2
          /\ convDocs[s].messages[1] # convDocs[s].messages[2]

\* Client c makes its call of queue_embedding_job in this step.
QueueStep(c) == spc[c] = "idle" /\ spc'[c] = "ret" /\ scall'[c].op = "queue"

\* The stream has one more entry, of user u, and the points are as they were.
PublishedOne(u) ==
    /\ Len(stream') = Len(stream) + 1
    /\ SubSeq(stream', 1, Len(stream)) = stream
    /\ stream'[Len(stream')].user_id = u
    /\ points' = points

\* There is one more point, of user u, next to the points there were.
UpsertedOne(u) ==
    /\ Len(points') = Len(points) + 1
    /\ SubSeq(points', 1, Len(points)) = points
    /\ points'[Len(points')].user_id = u

\* C18: queue_embedding_job with async embedding on and Redis reachable publishes
\* exactly one job and makes no point; with async embedding off, or Redis
\* unavailable or raising, it publishes nothing, embeds and upserts one point with
\* a fresh id, and returns what that immediate path returns.
C18_EnqueueEmbedding ==
    [][\A c \in Clients : QueueStep(c) =>
          IF asyncEnabled /\ redisUp
          THEN PublishedOne(scall'[c].user) /\ scall'[c].result
          ELSE /\ stream' = stream
               /\ scall'[c].result = (qdrantUp /\ embedUp)
               /\ IF qdrantUp /\ embedUp
                  THEN UpsertedOne(scall'[c].user)
                  ELSE points' = points]_vars

\* With async embedding on, a job was published and, Redis being down, a later
\* call has embedded its content at once.
C18_Witness ==
    \E c \in Clients :
        /\ spc[c] = "ret" /\ scall[c].op = "queue" /\ scall[c].result
        /\ asyncEnabled /\ ~redisUp
        /\ stream # <<>> /\ points # <<>>

\* Client c makes its call of retrieve_similar in this step.
RetrieveStep(c) == spc[c] = "idle" /\ spc'[c] = "ret" /\ scall'[c].op = "retrieve"

\* retrieve_similar returns [] when the embedder fails.
EmbedderFailureEmpty ==
    [][\A c \in Clients : (RetrieveStep(c) /\ ~embedUp) => scall'[c].hits = <<>>]_vars

\* C19: retrieve_similar with an empty query returns an empty list, and it returns
\* an empty list, raising nothing, when the embedder fails.
C19_EmptyQuery ==
    [][\A c \in Clients : RetrieveStep(c) =>
          /\ scall'[c].query = <<>> => scall'[c].hits = <<>>
          /\ ~embedUp => scall'[c].hits = <<>>]_vars

\* The hits of the call are the first of those the index returns for it, at most
\* k, in that order, each with a score of min_similarity or more.
TopKInOrder(c) ==
    LET h == scall'[c].hits
        found == Search(points, scall'[c].user, Embed(scall'[c].query),
                        scall'[c].k * 2, scall'[c].minSim)
    IN  /\ Len(h) <= scall'[c].k
        /\ Len(h) <= Len(found)
        /\ \A n \in 1..Len(h) :
              /\ h[n].id = found[n]
              /\ h[n].score >= scall'[c].minSim
              /\ h[n].metadata.content = points[found[n]].content

\* The collection has no conversation for the session of the hit.
DocMissing(h) == h.session_id \notin DOMAIN convDocs

\* No summary is to be had for the hit: no conversation, MongoDB unavailable, or a
\* conversation whose summary is empty.
DocUnread(h) == DocMissing(h) \/ ~mongoUp \/ convDocs[h.session_id].summary = <<>>

\* C20 as stated: at most k items, in the order of the index, each with a score of
\* min_similarity or more; the content of an item is the content of the payload when
\* the conversation of the hit is missing, and the summary of the conversation
\* otherwise.
C20_AsStated ==
    [][\A c \in Clients : RetrieveStep(c) =>
          /\ TopKInOrder(c)
          /\ \A n \in 1..Len(scall'[c].hits) :
                LET h == scall'[c].hits[n]
                IN  h.content = IF DocMissing(h) THEN h.metadata.content
                                ELSE convDocs[h.session_id].summary]_vars

\* C20: at most k items, in the order of the index, each with a score of
\* min_similarity or more; the content of an item is the content of the payload when
\* the conversation of the hit is missing, cannot be read (MongoDB unavailable) or
\* has an empty summary, and the summary of the conversation otherwise.
C20_TopK ==
    [][\A c \in Clients : RetrieveStep(c) =>
          /\ TopKInOrder(c)
          /\ \A n \in 1..Len(scall'[c].hits) :
                LET h == scall'[c].hits[n]
                IN  h.content = IF DocUnread(h) THEN h.metadata.content
                                ELSE convDocs[h.session_id].summary]_vars

\* A call with k = 2 has its two items back, two hits of equal score; one of them
\* carries the content of its payload although its session has a conversation
\* with a summary.
C20_Witness ==
    \E c \in Clients :
        /\ spc[c] = "ret" /\ scall[c].op = "retrieve"
        /\ scall[c].k = 2 /\ Len(scall[c].hits) = 2
        /\ scall[c].hits[1].score = scall[c].hits[2].score
        /\ \E n \in 1..2 :
              LET h == scall[c].hits[n]
              IN  /\ ~DocMissing(h)
                  /\ convDocs[h.session_id].summary # <<>>
                  /\ h.content = h.metadata.content
                  /\ h.content # convDocs[h.session_id].summary

\* The stores of the three backends: documents, keys, points and the stream.
Stored == <<prefDocs, prefCache, sessLog, sessTTL, sessExpires, convDocs, points, stream,
            groupCreated, lastDelivered, pending>>

\* During the outage no step changes what the backends hold.
DegradedFrame == [][AllDown => UNCHANGED Stored]_vars

\* During the outage no exception reaches the caller (every call comes back with
\* a value) and these operations come back with false or an empty value.
DegradedOthers ==
    AllDown =>
        /\ \A c \in Clients : spc[c] = "ret" =>
               /\ scall[c].op \in {"append", "refresh"} => ~scall[c].result
               /\ scall[c].op = "list" => scall[c].msgs = <<>>
               /\ scall[c].op = "retrieve" => scall[c].hits = <<>>
        /\ \A c \in Callers : pc[c] = "ret" =>
               /\ call[c].op = "get" => call[c].out = {}
               /\ call[c].op = "update" => ~call[c].result

\* C12: with Redis, MongoDB and Qdrant all unavailable, every public operation
\* (append, list, refresh, finalize, retrieve, get preferences, update preference)
\* returns false or an empty result.
C12_DegradedResults ==
    /\ DegradedOthers
    /\ AllDown => \A c \in Clients :
           spc[c] = "ret" /\ scall[c].op = "finalize" => ~scall[c].result

\* The entries of the batch worker w holds, while its process lives.
Holds(w, e) ==
    wstate[w] \notin Exited /\ \E i \in 1..Len(wbatch[w]) : wbatch[w][i] = e

\* Entry e, a well-formed job with content, is pending in no worker's hands and
\* without a point, and no worker was killed or stopped and no malformed entry
\* is on the stream: an attempt on it failed at embed_query or at the upsert.
AttemptFailed(e) ==
    /\ e \in DOMAIN pending
    /\ stream[e].content # <<>>
    /\ upserts[e] = 0
    /\ kills = 0 /\ ctl = "running"
    /\ \A i \in 1..Len(stream) : stream[i].created_at = "float"
    /\ \A w \in DOMAIN wstate : ~Holds(w, e)

\* C24, as claimed: with backends that answer for good and the controller
\* running, an entry whose embedding or upsert failed, left unacked in the
\* pending list, is later delivered to a worker again.
C24_FailedEntryRedelivered ==
    (<>[]Healthy) =>
        \A e \in 1..MaxJobs :
            AttemptFailed(e) ~> ((\E w \in DOMAIN wstate : Holds(w, e)) \/ ctl = "stopped")

\* C25, as claimed: with backends that answer for good, a pending entry that
\* the controller has claimed is eventually acked, unless the controller is
\* stopped first.
C25_ClaimedEntryDrained ==
    (<>[]Healthy) =>
        \A e \in 1..MaxJobs :
            (e \in DOMAIN pending /\ pending[e].owner = "ctl")
                ~> (e \notin DOMAIN pending \/ ctl = "stopped")

\* A step in which XAUTOCLAIM took an entry: a stale pending entry is pending
\* still and no longer stale.
ClaimStep ==
    \E e \in DOMAIN pending \cap DOMAIN pending' : pending[e].stale /\ ~pending'[e].stale

\* C26: a pass of the controller that claims gives every stale pending entry to
\* "ctl" and leaves every other pending entry as it was; it acks nothing,
\* deletes nothing from the stream, creates no point, and leaves the group's
\* read cursor and every living worker, with its batch, as they were, so the
\* workers go on reading new entries; and no entry ever becomes the
\* controller's unless it was stale.
C26_ClaimTransfersOnly ==
    [][/\ ClaimStep =>
            /\ DOMAIN pending' = DOMAIN pending
            /\ \A e \in DOMAIN pending :
                  pending'[e] = IF pending[e].stale
                                THEN [owner |-> "ctl", stale |-> FALSE]
                                ELSE pending[e]
            /\ stream' = stream /\ points' = points
            /\ lastDelivered' = lastDelivered /\ groupCreated' = groupCreated
            /\ \A w \in DOMAIN wstate :
                  wstate[w] \notin Exited => wstate'[w] = wstate[w] /\ wbatch'[w] = wbatch[w]
       /\ \A e \in DOMAIN pending \cap DOMAIN pending' :
              (pending'[e].owner = "ctl" /\ pending[e].owner # "ctl") => pending[e].stale]_vars

\* The controller has claimed an entry, another pending entry it has not, and
\* a worker holds an entry delivered after the claimed one.
C26_Witness ==
    \E e, f \in DOMAIN pending :
        /\ pending[e].owner = "ctl"
        /\ pending[f].owner # "ctl"
        /\ f > e
        /\ \E w \in DOMAIN wstate : Holds(w, f) /\ pending[f].owner = w

\* C27, as claimed: the step in which a worker handles a malformed entry (no
\* content, or a created_at that is not a number) creates no point and leaves
\* the worker about to ack that entry, with the rest of its batch still to
\* be processed.
C27_PoisonAcked ==
    [][\A w \in DOMAIN wstate :
          ( /\ wstate[w] = "process"
            /\ wstate'[w] \notin Exited \cup {"process"}
            /\ \/ stream[Head(wbatch[w])].content = <<>>
               \/ stream[Head(wbatch[w])].created_at # "float" )
          => /\ wstate'[w] = "ack"
             /\ wbatch'[w] = wbatch[w]
             /\ points' = points]_vars

\* The worker's process is in its loop.
InLoop(w) == wstate[w] \in {"read", "process", "ack"}

\* C29: the consumer names are those of the pool at all times; while the
\* controller runs, a worker whose process has exited is started again under
\* its name (every pass that claims entries also restarts every exited
\* worker), and with backends that answer for good all workers of the pool
\* are eventually in their loops again; once the controller has stopped it
\* stays stopped, every worker process has exited and none is started.
C29_Supervision ==
    /\ [](DOMAIN wstate = Pool)
    /\ [](ctl = "stopped" => \A w \in Pool : wstate[w] \in Exited)
    /\ [][ctl = "stopped" => ctl' = "stopped"]_vars
    /\ [][(ctl = "running" /\ ClaimStep)
            => \A w \in Pool : wstate[w] \in Exited => wstate'[w] = "start"]_vars
    /\ \A w \in Pool :
          (ctl = "running" /\ wstate[w] \in Exited)
              ~> (wstate[w] \notin Exited \/ ctl = "stopped")
    /\ (<>[]Healthy) =>
          ((ctl = "running") ~> ((\A w \in Pool : InLoop(w)) \/ ctl = "stopped"))

\* A worker was killed or stopped, the controller has started it again and
\* the whole pool is in its loops.
C29_Witness ==
    /\ ctl = "running"
    /\ kills > 0
    /\ \A w \in Pool : InLoop(w)

\* C30, as claimed: a worker that was told to stop while it held a batch has
\* exited with the entry it was handling acked and with every later entry of
\* the batch still pending.
C30_GracefulStop ==
    \A w \in DOMAIN wstate :
        (wstate[w] = "stopped" /\ wbatch[w] # <<>>)
            => /\ Head(wbatch[w]) \notin DOMAIN pending
               /\ \A i \in 2..Len(wbatch[w]) : wbatch[w][i] \in DOMAIN pending

\* C31, as claimed: when a save_message(s, m) and a finalize_session(u, s) have
\* both returned True, the latter having saved a document, m is among the messages of the conversation document
\* of s or in the list of s.
C31_AppendSurvivesFinalize ==
    \A c, d \in Clients :
        ( /\ spc[c] = "ret" /\ scall[c].op = "append" /\ scall[c].result
          /\ spc[d] = "ret" /\ scall[d].op = "finalize" /\ scall[d].result
          /\ scall[d].msgs # <<>>
          /\ scall[c].sid = scall[d].sid )
        => LET s == scall[c].sid
           IN  \/ \E i \in 1..Len(sessLog[s]) : JsonLoads(sessLog[s][i]) = scall[c].msg
               \/ /\ s \in DOMAIN convDocs
                  /\ \E i \in 1..Len(convDocs[s].messages) :
                        convDocs[s].messages[i] = scall[c].msg

\* Entry e has been delivered to the group and is no longer pending: XACKed.
Acked(e) == e <= lastDelivered /\ e \notin DOMAIN pending

\* C33: every acked entry with content had its upsert succeed, and a point
\* with its user_id and session_id exists; a worker about to ack holds an
\* entry that is empty or upserted.
C33_AckImpliesDone ==
    /\ \A e \in 1..Len(stream) :
          Acked(e) /\ stream[e].content # <<>>
              => /\ upserts[e] >= 1
                 /\ \E i \in 1..Len(points) :
                       /\ points[i].user_id = stream[e].user_id
                       /\ points[i].session_id = stream[e].session_id
    /\ \A w \in DOMAIN wstate :
          wstate[w] = "ack"
              => LET e == Head(wbatch[w])
                 IN  stream[e].content = <<>> \/ upserts[e] >= 1

\* An entry with content was acked after an earlier attempt on the stream
\* met a backend that was down.
C33_Witness ==
    \E e \in 1..Len(stream) :
        /\ Acked(e) /\ stream[e].content # <<>> /\ upserts[e] = 1
        /\ \E f \in DOMAIN pending : stream[f].content # <<>> /\ upserts[f] = 0
                                       /\ stream[f].created_at = "float"

C35_EnrichmentOwnUser ==
    \A c \in Clients :
        (spc[c] = "ret" /\ scall[c].op = "retrieve") =>
            \A n \in 1..Len(scall[c].hits) :
                LET h == scall[c].hits[n]
                    u == scall[c].user
                IN  \/ /\ h.content = points[h.id].content
                       /\ points[h.id].user_id = u
                    \/ /\ h.session_id \in DOMAIN convDocs
                       /\ convDocs[h.session_id].user_id = u
                       /\ h.content = convDocs[h.session_id].summary

\* C39: the job finalize_session puts on the stream carries one pair for each
\* two adjacent messages and nothing for an unpaired last one, so that a
\* session of one message gives an empty content; with async embedding on and
\* Redis answering the job is put on the stream all the same; and a worker
\* that processes an entry with empty content goes on to ack it, with no
\* point created and no upsert counted for it.
C39_SummaryPairing ==
    [][ /\ \A c \in Clients :
              (spc[c] = "fin_queue" /\ spc'[c] = "fin_clear")
                  => LET msgs == scall[c].msgs
                     IN  /\ (asyncEnabled /\ redisUp) => Len(stream') = Len(stream) + 1
                         /\ Len(stream') = Len(stream) + 1
                               => LET job == stream'[Len(stream')]
                                  IN  /\ job.user_id = scall[c].user
                                      /\ job.session_id = scall[c].sid
                                      /\ Len(msgs) - 2 * Len(job.content) \in {0, 1}
                                      /\ \A i \in 1..Len(job.content) :
                                            job.content[i] = <<msgs[2 * i - 1].content,
                                                               msgs[2 * i].content>>
                                      /\ Len(msgs) = 1 => job.content = <<>>
        /\ \A w \in DOMAIN wstate :
              /\ ( /\ wstate[w] = "process"
                   /\ stream[Head(wbatch[w])].content = <<>>
                   /\ stream[Head(wbatch[w])].created_at = "float"
                   /\ wstate'[w] \notin {"process"} \cup Exited )
                    => wstate'[w] = "ack" /\ points' = points
              /\ ( /\ wstate[w] = "ack"
                   /\ stream[Head(wbatch[w])].content = <<>>
                   /\ wstate'[w] \notin {"ack"} \cup Exited
                   /\ redisUp )
                    => Head(wbatch[w]) \notin DOMAIN pending'
        /\ \A e \in 1..Len(stream') : stream'[e].content = <<>> => upserts'[e] = 0 ]_vars

\* A session of one message was finalised, its job with empty content was
\* put on the stream and acked by the worker, and there is no point.
C39_Witness ==
    \E e \in 1..Len(stream) :
        /\ stream[e].content = <<>>
        /\ Acked(e)
        /\ upserts[e] = 0
        /\ points = <<>>
        /\ stream[e].session_id \in DOMAIN convDocs
        /\ Len(convDocs[stream[e].session_id].messages) = 1

\* C8: every item retrieve_similar(u, q) returns comes from a point whose payload
\* user_id is u.
C8_UserIsolation ==
    \A c \in Clients :
        (spc[c] = "ret" /\ scall[c].op = "retrieve") =>
            \A n \in 1..Len(scall[c].hits) :
                /\ scall[c].hits[n].metadata.user_id = scall[c].user
                /\ points[scall[c].hits[n].id].user_id = scall[c].user

\* A retrieval returned a point of its user while the collection held a point of
\* another user with the very same vector.
C8_Witness ==
    \E c \in Clients :
        /\ spc[c] = "ret" /\ scall[c].op = "retrieve"
        /\ Len(scall[c].hits) >= 1
        /\ \E i \in 1..Len(points) :
              /\ points[i].user_id # scall[c].user
              /\ points[i].vector = points[scall[c].hits[1].id].vector

----------------------------------------------------------------------------
(* Claims about the preference store *)

SetInFlight(u) == {c \in Callers : pc[c] = "set_invalidate" /\ call[c].user = u}

\* Two finished set(u, p, expected_version = e) calls that both started while the
\* stored version was e, each with the database answering at its write.
RacedVersionedSets(c1, c2) ==
    /\ c1 # c2
    /\ pc[c1] = "ret" /\ pc[c2] = "ret"
    /\ call[c1].op = "set" /\ call[c2].op = "set"
    /\ call[c1].versioned /\ call[c2].versioned
    /\ call[c1].user = call[c2].user
    /\ call[c1].expected = call[c2].expected
    /\ call[c1].startVer = call[c1].expected
    /\ call[c2].startVer = call[c2].expected
    /\ call[c1].dbUp /\ call[c2].dbUp

\* C2: of two concurrent set(u, p, expected_version = v) calls on a document at
\* version v exactly one returns True; afterwards the stored version is v + 1
\* and the stored preferences are the winner's.
C2_OptimisticLocking ==
    \A c1, c2 \in Callers :
        RacedVersionedSets(c1, c2) =>
            /\ call[c1].result # call[c2].result
            /\ VersionOf(prefDocs, call[c1].user) = call[c1].expected + 1
            /\ prefDocs[call[c1].user].preferences =
                   (IF call[c1].result THEN call[c1].prefs ELSE call[c2].prefs)

C2_Witness ==
    \E c1, c2 \in Callers :
        /\ RacedVersionedSets(c1, c2)
        /\ call[c1].result
        /\ call[c1].prefs # call[c2].prefs

\* C3, as claimed: at every point the stored version equals the number of set
\* calls that have returned True.
C3_VersionEqualsReturnedSets ==
    \A u \in PrefUsers : VersionOf(prefDocs, u) = okSets[u]

\* C3, amended: the stored version never decreases; it changes only in the
\* document write of a set that goes on to return True, and then by exactly 1; at
\* every point it equals the number of such writes, which is the number of set
\* calls that have returned True plus those between their write and their return.
C3_VersionCountsWrites ==
    /\ [](\A u \in PrefUsers :
             /\ VersionOf(prefDocs, u) = writes[u]
             /\ writes[u] = okSets[u] + Cardinality(SetInFlight(u)))
    /\ [][\A u \in PrefUsers :
             /\ VersionOf(prefDocs', u) \in {VersionOf(prefDocs, u), VersionOf(prefDocs, u) + 1}
             /\ (VersionOf(prefDocs', u) = VersionOf(prefDocs, u) + 1) <=>
                   (\E c \in Callers : /\ call[c].user = u
                                        /\ pc[c] = "set_update_one"
                                        /\ pc'[c] = "set_invalidate")]_vars

C3_Witness ==
    \E u \in PrefUsers :
        /\ VersionOf(prefDocs, u) = 2
        /\ okSets[u] = 2
        /\ \E c \in Callers : pc[c] = "ret" /\ call[c].op = "set" /\ call[c].versioned
                                /\ call[c].result

\* C4: a set with an expected_version that differs from the stored version, or
\* with no document stored, returns False at once and changes neither the
\* document collection nor the cache.
C4_MismatchNoEffect ==
    [][\A c \in Callers :
          ( /\ pc[c] = "set_update_one"
            /\ pc'[c] # "set_update_one"
            /\ call[c].versioned
            /\ VersionOf(prefDocs, call[c].user) # call[c].expected )
          => ( /\ pc'[c] = "ret"
               /\ call'[c].result = FALSE
               /\ prefDocs' = prefDocs
               /\ prefCache' = prefCache )]_vars

\* A versioned set has failed on a stale version with the database answering,
\* and the cache entry is still there.
C4_Witness ==
    \E c \in Callers :
        /\ pc[c] = "ret" /\ call[c].op = "set" /\ call[c].versioned
        /\ call[c].dbUp /\ ~call[c].result
        /\ call[c].user \in DOMAIN prefDocs
        /\ prefDocs[call[c].user].version # call[c].expected
        /\ call[c].user \in DOMAIN prefCache

\* C5, as claimed: a set with no expected_version returns True whenever the
\* document store is available.
C5_BlindSetReturnsTrue ==
    \A c \in Callers :
        (pc[c] = "ret" /\ call[c].op = "set" /\ ~call[c].versioned /\ call[c].dbUp)
            => call[c].result

\* One step of a get_preferences call made by a client, with the store it
\* talks to answering. warmsAlways says whether the document read is followed
\* by the cache write whatever ENABLE_REDIS_CACHE is.
ReadThroughStep(c, warmsAlways) ==
    LET u == call[c].user
        hit == cacheEnabled /\ redisUp /\ u \in DOMAIN prefCache
        stored == {x \in prefDocs[u].preferences : x[1] # "_version"}
                      \cup {<<"_version", prefDocs[u].version>>}
    IN  /\ (pc[c] = "get_cache" /\ pc'[c] # "get_cache" /\ hit)
              => /\ pc'[c] = "ret" /\ ~call'[c].outNull
                 /\ call'[c].out = {prefCache[u].value[i] :
                                        i \in 2..Len(prefCache[u].value)}
                 /\ prefCache' = prefCache
        /\ (pc[c] = "get_cache" /\ pc'[c] # "get_cache" /\ ~hit /\ (cacheEnabled => redisUp))
              => pc'[c] = "get_find_one" /\ prefCache' = prefCache
        /\ (pc[c] = "get_find_one" /\ pc'[c] # "get_find_one" /\ mongoUp
                /\ u \notin DOMAIN prefDocs)
              => pc'[c] = "ret" /\ call'[c].outNull /\ prefCache' = prefCache
        /\ (pc[c] = "get_find_one" /\ pc'[c] # "get_find_one" /\ mongoUp
                /\ u \in DOMAIN prefDocs)
              => /\ call'[c].out = stored
                 /\ prefCache' = prefCache
                 /\ IF cacheEnabled \/ warmsAlways
                    THEN pc'[c] = "get_warm"
                    ELSE pc'[c] = "ret" /\ ~call'[c].outNull
        /\ (pc[c] = "get_warm" /\ pc'[c] # "get_warm" /\ redisUp)
              => /\ pc'[c] = "ret" /\ ~call'[c].outNull
                 /\ call'[c].out = call[c].out
                 /\ u \in DOMAIN prefCache'
                 /\ prefCache'[u].ex = 3600
                 /\ {prefCache'[u].value[i] : i \in 2..Len(prefCache'[u].value)}
                        = call[c].out

C22_SetInvalidates ==
    [][\A c \in Callers :
          LET u == call[c].user
          IN  /\ (pc[c] = "set_invalidate" /\ pc'[c] = "ret")
                    => u \notin DOMAIN prefCache'
              /\ ( /\ call[c].op = "get"
                   /\ pc[c] # "ret" /\ pc'[c] = "ret"
                   /\ call[c].alone
                   /\ mongoUp /\ redisUp
                   /\ okSets[u] > 0
                   /\ u \in DOMAIN prefDocs )
                    => /\ ~call'[c].outNull
                       /\ call'[c].out =
                              {x \in prefDocs[u].preferences : x[1] # "_version"}
                                  \cup {<<"_version", prefDocs[u].version>>}]_vars

\* C32, as claimed: when no get_preferences or set_preferences call is in
\* flight, an entry pref:{u} that exists holds the preferences and the
\* _version of the stored document of u.
C32_CacheCoherent ==
    (\A c \in Callers : pc[c] = "idle")
        => \A u \in DOMAIN prefCache :
              u \in DOMAIN prefDocs
                  => PrefLoads(prefCache[u].value) = Decorate(prefDocs[u])

\* C36, as claimed: the preferences of no stored document have a key
\* "_version".
C36_NoVersionKeyStored ==
    \A u \in DOMAIN prefDocs : ~HasKey(prefDocs[u].preferences, "_version")

CommitPolicyStep(w) ==
    LET e == Head(call[w].batch)
        job == prefq.stream[e]
        wellFormed == job.user_id # "" /\ job.session_id # ""
        acks == (redisUp => e \notin prefq'.pending) /\ prefDocs' = prefDocs
    IN  /\ pc[w] = "set_update_one"
              => IF call[w].outNull
                 THEN ~call[w].versioned
                 ELSE call[w].versioned /\ <<"_version", call[w].expected>> \in call[w].out
        /\ (pc[w] = "set_update_one" /\ pc'[w] = "ret" /\ call[w].versioned
                /\ ~call'[w].result)
              => prefDocs' = prefDocs
        /\ (pc[w] = "ret" /\ pc'[w] # "ret") => acks
        /\ (pc[w] = "pw_job" /\ call'[w] # call[w] /\ wellFormed /\ mongoUp
                /\ job.session_id \notin DOMAIN convDocs)
              => pc'[w] = "pw_ack" /\ prefDocs' = prefDocs
        /\ (pc[w] = "pw_ack" /\ pc'[w] # "pw_ack") => acks
        /\ (pc[w] = "pw_job" /\ call'[w] # call[w] /\ wellFormed /\ ~mongoUp)
              => /\ e \in prefq'.pending
                 /\ pc'[w] \in {"pw_read", "pw_job"}
                 /\ call'[w].batch = Tail(call[w].batch)
                 /\ prefDocs' = prefDocs

----------------------------------------------------------------------------
(* Claims about the intra-session store *)

\* C23, as claimed: a save_message, clear_session or refresh_ttl that returns
\* False has changed nothing: the list of the session and its time-to-live
\* are as before the call, and the message of a failed save_message is not in
\* the list.
C23_FailureNoOp ==
    [][\A c \in Clients :
          /\ (spc[c] = "rpush" /\ spc'[c] = "ret" /\ ~scall'[c].result)
                => UNCHANGED <<sessLog, sessTTL, sessExpires>>
          /\ (spc[c] = "expire" /\ spc'[c] = "ret" /\ ~scall'[c].result)
                => ~PushSurvives(c)
          /\ ( /\ spc[c] = "idle" /\ spc'[c] = "ret"
               /\ scall'[c].op \in {"clear", "refresh"} /\ ~scall'[c].result )
                => UNCHANGED <<sessLog, sessTTL, sessExpires>>]_vars

\* C38, as claimed: a key session:{s} that holds messages, no save_message
\* being between its RPUSH and its EXPIRE on s, has a time-to-live, of at
\* most INTRA_SESSION_TTL.
C38_KeyHasExpiry ==
    \A s \in Sessions :
        ( /\ sessLog[s] # <<>>
          /\ \A c \in Clients : ~(spc[c] = "expire" /\ scall[c].sid = s) )
            => sessExpires[s] /\ sessTTL[s] <= INTRA_SESSION_TTL

\* C9: list(s) is exactly the messages pushed since the key was last deleted,
\* each once and whole, in the order their pushes took effect, whichever
\* client pushed them; list(s, limit) is the tail of that.
C9_OrderPreserved ==
    \A s \in Sessions :
        /\ GetMessages(sessLog[s], 0) = HistMsgs(s)
        /\ \A limit \in 1..Len(hist[s]) :
              GetMessages(sessLog[s], limit) =
                  SubSeq(HistMsgs(s), Len(hist[s]) - limit + 1, Len(hist[s]))

\* Two clients have appended different messages to one session, both with success.
C9_Witness ==
    \E s \in Sessions :
        /\ Len(hist[s]) = 2
        /\ hist[s][1].by # hist[s][2].by
        /\ hist[s][1].msg # hist[s][2].msg
        /\ hist[s][1].state = "ok" /\ hist[s][2].state = "ok"

\* C10: an append that returns True on a key not deleted since its push leaves
\* the key with a time-to-live of exactly INTRA_SESSION_TTL; and within
\* INTRA_SESSION_TTL of such an append the key exists, with at least the rest of
\* that time to live.
C10_SlidingTTL ==
    /\ [](\A s \in Sessions :
             idle[s] < INTRA_SESSION_TTL =>
                 /\ sessLog[s] # <<>>
                 /\ sessExpires[s]
                 /\ sessTTL[s] >= INTRA_SESSION_TTL - idle[s])
    /\ [][\A c \in Clients :
             ( /\ spc[c] = "expire" /\ spc'[c] = "ret"
               /\ scall'[c].result
               /\ PushSurvives(c) )
             => ( /\ sessLog'[scall[c].sid] # <<>>
                  /\ sessExpires'[scall[c].sid]
                  /\ sessTTL'[scall[c].sid] = INTRA_SESSION_TTL )]_vars

\* A second append has just returned True on a key whose time was running.
C10_Witness ==
    \E c \in Clients :
        /\ spc[c] = "ret" /\ scall[c].op = "append" /\ scall[c].result
        /\ Len(hist[scall[c].sid]) = 2
        /\ hist[scall[c].sid][2].by = c
        /\ hist[scall[c].sid][1].state = "ok" /\ hist[scall[c].sid][2].state = "ok"
        /\ idle[scall[c].sid] = 0
        /\ sessTTL[scall[c].sid] = INTRA_SESSION_TTL

====
